---- MODULE Spec2Model ----
(***************************************************************************)
(* GridFlex orchestrator: the rule cascade of                              *)
(* OrchestratorAgent.make_optimization_decision, the savings estimators,   *)
(* the running metrics, the decision history and its queries, the          *)
(* flexibility value calculation, and around it the market condition      *)
(* classifier and snapshot cache of GridMarketAgent, the execution window  *)
(* of WorkloadIntelligenceAgent, the POST /optimize endpoint of main.py    *)
(* and the four-step journey of BecknClient.                               *)
(*                                                                         *)
(* Numbers.  The code computes in binary floating point; the model         *)
(* computes in exact fixed point:                                          *)
(*   energy   in units of 1/EnergyScale kWh                                *)
(*   price    in units of 1/PriceScale  GBP per kWh                        *)
(*   carbon   in units of 1/CarbonScale gCO2 per kWh                       *)
(*   money    (a savings figure, rounded to 2 decimals) in pence           *)
(*   grams    (a reduction figure, rounded to 2 decimals) in 1/100 g       *)
(*   kilograms (the cumulative reduction) in 1/KgScale kg                  *)
(*   time     in milliseconds                                              *)
(* Averages are exact rationals <<numerator, denominator>>.  Inputs are    *)
(* chosen so that x * 0.7, x * 0.5 and x * 0.8 are exact in these units.   *)
(* An Optional value is a set with at most one element: {} is None.        *)
(***************************************************************************)
EXTENDS Integers, Sequences, FiniteSets, TLC

VARIABLES
    metrics,            \* OrchestratorAgent.metrics (OrchestratorMetrics)
    decision_history,   \* OrchestratorAgent.decision_history
    now,                \* the wall clock read by datetime.now(), in ms
    trace,              \* log of the calls made: arguments, latency, result
    call,               \* the last (or the pending) public call and its result
    pc,                 \* concurrent callers: position of each thread
    local               \* concurrent callers: locals of each thread

vars == <<metrics, decision_history, now, trace, call, pc, local>>

-----------------------------------------------------------------------------
(* Units *)

EnergyScale == 10^1
PriceScale == 10^5
CarbonScale == 10^2
GramScale == 10^2
KgScale == 10^5
MsPerHour == 60 * 60 * 1000
MsPerMinute == 60 * 1000
MsPerSecond == 10^3
SecondsPerDay == 24 * 60 * 60

-----------------------------------------------------------------------------
(* Bounds of the model *)

MaxDecisions == 3
MaxBatch == 2
MaxLimit == 3
NumThreads == 2
MaxWindowHours == 3
MaxTwinDecisions == 2

-----------------------------------------------------------------------------
(* Arithmetic helpers *)

Max(a, b) == IF a >= b THEN a ELSE b

Min(a, b) == IF a <= b THEN a ELSE b

Abs(a) == IF a < 0 THEN 0 - a ELSE a

RECURSIVE GCD(_, _)
GCD(a, b) == IF b = 0 THEN a ELSE GCD(b, a % b)

\* An exact rational in lowest terms with a positive denominator.
Rat(n, d) ==
    LET g == GCD(Abs(n), d)
    IN  IF n = 0 THEN <<0, 1>> ELSE <<n \div g, d \div g>>

\* Variant that weighs the old mean by n instead of k.
RatFoldWeighingByN(r, k, x, n) == Rat(r[1] * n + x * r[2], r[2] * n)

\* (r * k + x) / n  for a rational r and integers k, x, n (n > 0): the shape
\* of both incremental-mean updates of the code.
RatFold(r, k, x, n) == Rat(r[1] * k + x * r[2], r[2] * n)

\* round(x / d) to the nearest integer, ties to the even one (Python's round).
RoundHalfEven(x, d) ==
    LET q == x \div d
        r == x % d
    IN  IF 2 * r < d THEN q
        ELSE IF 2 * r > d THEN q + 1
        ELSE IF q % 2 = 0 THEN q ELSE q + 1

\* dict.get(key, default)
DictGet(dict, key, default) ==
    IF key \in DOMAIN dict THEN dict[key] ELSE default

RECURSIVE SeqSum(_)
SeqSum(s) == IF s = <<>> THEN 0 ELSE Head(s) + SeqSum(Tail(s))

Reverse(s) == [i \in 1..Len(s) |-> s[Len(s) + 1 - i]]

\* The element of a one-element set.  TheOnly({e(x) : x \in {v}}) is e(v)
\* with v computed once, as an assignment to a local computes it.
TheOnly(S) == CHOOSE x \in S : TRUE

-----------------------------------------------------------------------------
(* Configuration: OrchestratorAgent() as main.py constructs it *)

DEFAULT_CARBON_THRESHOLD == 150 * CarbonScale

DEFAULT_PRICE_THRESHOLD == (12 * PriceScale) \div 100

DEFAULT_SLA_RESPONSE_MINUTES == 5

carbon_threshold == DEFAULT_CARBON_THRESHOLD

price_threshold == DEFAULT_PRICE_THRESHOLD

sla_response_minutes == DEFAULT_SLA_RESPONSE_MINUTES

-----------------------------------------------------------------------------
(* SavingsEstimator *)

\* max(0, round(energy * current - energy * optimal, 2)), in pence.
calculate_cost_savings(energy_kwh, current_price, optimal_price) ==
    LET current_cost == energy_kwh * current_price
        optimal_cost == energy_kwh * optimal_price
        savings == current_cost - optimal_cost
    IN  Max(0, RoundHalfEven(savings, (EnergyScale * PriceScale) \div 100))

\* Variant without the max(0, ...) clamp.
calculate_carbon_reduction_unclamped(energy_kwh, current_carbon, optimal_carbon) ==
    RoundHalfEven(energy_kwh * current_carbon - energy_kwh * optimal_carbon,
                  (EnergyScale * CarbonScale) \div 100)

\* max(0, round(energy * current - energy * optimal, 2)), in 1/100 g.
calculate_carbon_reduction(energy_kwh, current_carbon, optimal_carbon) ==
    LET current_emissions == energy_kwh * current_carbon
        optimal_emissions == energy_kwh * optimal_carbon
        reduction == current_emissions - optimal_emissions
    IN  Max(0, RoundHalfEven(reduction, (EnergyScale * CarbonScale) \div 100))

-----------------------------------------------------------------------------
(* DecisionEngine: the rule cascade of make_optimization_decision *)

\* The locals read from the job and grid dicts, with the defaults of .get().
JobId(job) == DictGet(job, "job_id", "unknown")
JobEnergy(job) == DictGet(job, "energy_required_kwh", 0)
JobDeferrable(job) == DictGet(job, "deferrable", FALSE)
JobMaxDeferral(job) == DictGet(job, "max_deferral_hours", 0)
JobPriority(job) == DictGet(job, "priority", "medium")
GridCarbon(grid) == DictGet(grid, "carbon_intensity", 0)
GridPrice(grid) == DictGet(grid, "energy_price", 0)
GridForecast(grid) == DictGet(grid, "forecast_next_hour", {})

\* Python truthiness of an Optional number: None and 0 are false.
Truthy(opt) == opt # {} /\ opt # {0}

OptValue(opt) == CHOOSE v \in opt : TRUE

\* Variant of rule 1 that forgets the priority.
IsSlaCriticalNoPriority(job) == ~JobDeferrable(job)

\* Rule 1: critical or non-deferrable.
IsSlaCritical(job) == ~JobDeferrable(job) \/ JobPriority(job) = "critical"

\* Variant of rule 2 with strict comparisons.
IsFavorableStrict(grid) ==
    GridCarbon(grid) < carbon_threshold /\ GridPrice(grid) < price_threshold

\* Rule 2: both carbon and price within the thresholds.
IsFavorable(grid) ==
    GridCarbon(grid) <= carbon_threshold /\ GridPrice(grid) <= price_threshold

\* Variant of rule 3 that wants a forecast to defer on.
IsHighCarbonWithForecast(job, grid) ==
    /\ GridCarbon(grid) > carbon_threshold
    /\ JobDeferrable(job)
    /\ GridForecast(grid) # {}

\* Rule 3 and rule 4 guards.
IsHighCarbon(job, grid) ==
    GridCarbon(grid) > carbon_threshold /\ JobDeferrable(job)

\* Variant that wants a deferral window of at least an hour.
IsHighPriceWithWindow(job, grid) ==
    /\ GridPrice(grid) > price_threshold
    /\ JobDeferrable(job)
    /\ JobMaxDeferral(job) > 0

IsHighPrice(job, grid) ==
    GridPrice(grid) > price_threshold /\ JobDeferrable(job)

\* Variant of the chain that tests the price before the carbon.
RuleOfPriceFirst(job, grid) ==
    IF IsSlaCritical(job) THEN 1
    ELSE IF IsFavorable(grid) THEN 2
    ELSE IF IsHighPrice(job, grid) THEN 4
    ELSE IF IsHighCarbon(job, grid) THEN 3
    ELSE 5

\* The number of the first rule of the if/elif chain that matches.
RuleOf(job, grid) ==
    IF IsSlaCritical(job) THEN 1
    ELSE IF IsFavorable(grid) THEN 2
    ELSE IF IsHighCarbon(job, grid) THEN 3
    ELSE IF IsHighPrice(job, grid) THEN 4
    ELSE 5

\* An OptimizationDecision (decision_id and the explanation text left out).
\* t is the clock when the rule body runs, ts the clock when the pydantic
\* model is constructed (the default of its timestamp field).
ExecuteNowDecision(job, grid, rationale, ts) ==
    [job_id |-> JobId(job),
     timestamp |-> ts,
     action |-> "execute_now",
     rationale |-> rationale,
     current_carbon_intensity |-> GridCarbon(grid),
     current_energy_price |-> GridPrice(grid),
     estimated_cost_savings_gbp |-> 0,
     estimated_carbon_reduction_gco2 |-> 0,
     defer_until |-> {}]

\* Variant that defers by the rule's hours, whatever the job allows.
DeferDecisionFixedHours(job, grid, rationale, optimal_carbon, optimal_price, hours, t, ts) ==
    [job_id |-> JobId(job),
     timestamp |-> ts,
     action |-> "defer",
     rationale |-> rationale,
     current_carbon_intensity |-> GridCarbon(grid),
     current_energy_price |-> GridPrice(grid),
     estimated_cost_savings_gbp |->
         calculate_cost_savings(JobEnergy(job), GridPrice(grid), optimal_price),
     estimated_carbon_reduction_gco2 |->
         calculate_carbon_reduction(JobEnergy(job), GridCarbon(grid), optimal_carbon),
     defer_until |-> {t + hours * MsPerHour}]

\* The decision of a deferring rule: the estimates for the optimal window
\* and defer_until = datetime.now() + timedelta(hours=min(hours, max)).
DeferDecision(job, grid, rationale, optimal_carbon, optimal_price, hours, t, ts) ==
    [job_id |-> JobId(job),
     timestamp |-> ts,
     action |-> "defer",
     rationale |-> rationale,
     current_carbon_intensity |-> GridCarbon(grid),
     current_energy_price |-> GridPrice(grid),
     estimated_cost_savings_gbp |->
         calculate_cost_savings(JobEnergy(job), GridPrice(grid), optimal_price),
     estimated_carbon_reduction_gco2 |->
         calculate_carbon_reduction(JobEnergy(job), GridCarbon(grid), optimal_carbon),
     defer_until |-> {t + Min(hours, JobMaxDeferral(job)) * MsPerHour}]

\* Rule 3: high carbon.
HighCarbonDecision(job, grid, t, ts) ==
    LET forecast_carbon == GridForecast(grid)
        optimal_carbon == IF Truthy(forecast_carbon)
                          THEN OptValue(forecast_carbon)
                          ELSE (GridCarbon(grid) * 5) \div 10
        optimal_price == (GridPrice(grid) * 7) \div 10
    IN  DeferDecision(job, grid, "high_carbon", optimal_carbon, optimal_price, 6, t, ts)

\* Variant of rule 4 that leaves defer_until unset.
HighPriceDecisionNoDeferUntil(job, grid, t, ts) ==
    [DeferDecision(job, grid, "high_price", (GridCarbon(grid) * 8) \div 10,
                   (price_threshold * 7) \div 10, 4, t, ts)
        EXCEPT !.defer_until = {}]

\* Variant of rule 4 that takes 0.7 of the current price.
HighPriceDecisionFromCurrentPrice(job, grid, t, ts) ==
    DeferDecision(job, grid, "high_price", (GridCarbon(grid) * 8) \div 10,
                  (GridPrice(grid) * 7) \div 10, 4, t, ts)

\* Rule 4: high price.
HighPriceDecision(job, grid, t, ts) ==
    LET optimal_carbon == (GridCarbon(grid) * 8) \div 10
        optimal_price == (price_threshold * 7) \div 10
    IN  DeferDecision(job, grid, "high_price", optimal_carbon, optimal_price, 4, t, ts)

\* What a call yields when the OptimizationDecision constructor rejects its
\* arguments: pydantic raises and the exception leaves the method.
ValidationError == [raised |-> "ValidationError"]

Raised(result) == "raised" \in DOMAIN result

\* Variant of the field constraints with gt=0 in place of ge=0.
ValidDecisionPositive(d) ==
    /\ d.estimated_cost_savings_gbp > 0
    /\ d.estimated_carbon_reduction_gco2 > 0

\* The constraints of the model's fields: Field(ge=0) on both estimates.
ValidDecision(d) ==
    /\ d.estimated_cost_savings_gbp >= 0
    /\ d.estimated_carbon_reduction_gco2 >= 0

\* The arguments the selected rule passes to the constructor.
DecisionArguments(job, grid, t, ts) ==
    CASE RuleOf(job, grid) = 1 -> ExecuteNowDecision(job, grid, "sla_critical", ts)
      [] RuleOf(job, grid) = 2 -> ExecuteNowDecision(job, grid, "optimal_conditions", ts)
      [] RuleOf(job, grid) = 3 -> HighCarbonDecision(job, grid, t, ts)
      [] RuleOf(job, grid) = 4 -> HighPriceDecision(job, grid, t, ts)
      [] OTHER -> ExecuteNowDecision(job, grid, "no_benefit", ts)

\* The decision the cascade constructs, or the error of its construction.
MakeDecision(job, grid, t, ts) ==
    LET d == DecisionArguments(job, grid, t, ts)
    IN  IF ValidDecision(d) THEN d ELSE ValidationError

\* Variant in which a deferral marks the job dict it was given.
JobAfterCallMarkingStatus(job, result) ==
    IF ~Raised(result) /\ result.action = "defer"
    THEN [k \in DOMAIN job \cup {"status"} |->
             IF k = "status" THEN "deferred" ELSE job[k]]
    ELSE job

\* The job dict after the call: the method reads it with .get() and never
\* assigns to it.
JobAfterCall(job, result) == job

\* The grid dict after the call: read with .get(), never assigned to.
GridAfterCall(grid, result) == grid

-----------------------------------------------------------------------------
(* MetricsAggregator: the metrics updates of make_optimization_decision *)

\* OrchestratorMetrics() as constructed.  total_cost_saved_gbp is in pence,
\* total_carbon_reduced_kgco2 in 1/KgScale kg; the two averages are rationals.
InitialMetrics ==
    [total_decisions_made |-> 0,
     jobs_executed_immediately |-> 0,
     jobs_deferred |-> 0,
     jobs_shifted |-> 0,
     total_cost_saved_gbp |-> 0,
     total_carbon_reduced_kgco2 |-> 0,
     avg_decision_time_ms |-> <<0, 1>>,
     sla_compliance_rate |-> <<100, 1>>]

\* The number of 1/GramScale g in 1/KgScale kg.
KgUnitInGramUnits == (1000 * GramScale) \div KgScale

\* Variant that divides the grams by 100.
GramsToKgByHundred(grams) == (grams * 10) \div KgUnitInGramUnits

\* carbon_reduction / 1000: a figure in 1/GramScale g as one in 1/KgScale kg.
GramsToKg(grams) == grams \div KgUnitInGramUnits

\* Variant that counts a deferral as a shift.
CountDecisionDeferAsShift(m, d) ==
    IF d.action = "defer"
    THEN [m EXCEPT !.jobs_shifted = @ + 1,
                   !.total_cost_saved_gbp = @ + d.estimated_cost_savings_gbp,
                   !.total_carbon_reduced_kgco2 =
                       @ + GramsToKg(d.estimated_carbon_reduction_gco2)]
    ELSE [m EXCEPT !.jobs_executed_immediately = @ + 1]

\* Variant that counts every decision as executed immediately.
CountDecisionDeferAsExecute(m, d) ==
    [m EXCEPT !.jobs_executed_immediately = @ + 1]

\* The counter updates inside the rule branches.
CountDecision(m, d) ==
    IF d.action = "defer"
    THEN [m EXCEPT !.jobs_deferred = @ + 1,
                   !.total_cost_saved_gbp = @ + d.estimated_cost_savings_gbp,
                   !.total_carbon_reduced_kgco2 =
                       @ + GramsToKg(d.estimated_carbon_reduction_gco2)]
    ELSE [m EXCEPT !.jobs_executed_immediately = @ + 1]

\* decision_time_ms / 1000 / 60 > self.sla_response_minutes
IsSlaBreach(decision_time_ms) ==
    decision_time_ms > sla_response_minutes * MsPerMinute

\* Variant in which a decision over the budget is left out of the total.
UpdateRunningMetricsDroppingBreach(m, decision_time_ms) ==
    LET n == m.total_decisions_made + 1
    IN  IF IsSlaBreach(decision_time_ms)
        THEN [m EXCEPT !.sla_compliance_rate = RatFold(@, n - 1, 0, n)]
        ELSE [m EXCEPT !.total_decisions_made = n,
                       !.avg_decision_time_ms =
                           RatFold(@, n - 1, decision_time_ms, n)]

\* "Track decision time", "Update metrics" and "Check SLA compliance".
UpdateRunningMetrics(m, decision_time_ms) ==
    LET n == m.total_decisions_made + 1
        m1 == [m EXCEPT !.total_decisions_made = n,
                        !.avg_decision_time_ms =
                            RatFold(@, n - 1, decision_time_ms, n)]
    IN  IF IsSlaBreach(decision_time_ms)
        THEN [m1 EXCEPT !.sla_compliance_rate = RatFold(@, n - 1, 0, n)]
        ELSE m1

-----------------------------------------------------------------------------
(* The engine as a value, and one sequential make_optimization_decision *)

Engine(m, h, clock, tr) ==
    [metrics |-> m, decision_history |-> h, now |-> clock, trace |-> tr]

\* A timing is how the wall clock moves during one call: pre ms pass before
\* the rule body reads datetime.now(), gap ms more before the decision is
\* constructed, and the call measures lat ms in all (pre + gap <= lat).
\* When the constructor raises, nothing after it runs: no counter moves and
\* nothing is appended.
MakeOptimizationDecisionOn(eng, job, grid, timing) ==
    LET decision_start == eng.now
        t == decision_start + timing.pre
        ts == t + timing.gap
        decision == MakeDecision(job, grid, t, ts)
        decision_time_ms == timing.lat
    IN  IF Raised(decision)
        THEN Engine(eng.metrics, eng.decision_history, ts,
                    Append(eng.trace, [job |-> job, grid |-> grid,
                                       start |-> decision_start,
                                       latency |-> ts - decision_start,
                                       job_after |-> JobAfterCall(job, decision),
                                       grid_after |-> GridAfterCall(grid, decision),
                                       ret |-> decision]))
        ELSE Engine(UpdateRunningMetrics(CountDecision(eng.metrics, decision),
                                         decision_time_ms),
                    Append(eng.decision_history, decision),
                    decision_start + timing.lat,
                    Append(eng.trace, [job |-> job, grid |-> grid,
                                       start |-> decision_start,
                                       latency |-> decision_time_ms,
                                       job_after |-> JobAfterCall(job, decision),
                                       grid_after |-> GridAfterCall(grid, decision),
                                       ret |-> decision]))

\* What the last call on the engine yielded.
LastResult(eng) == eng.trace[Len(eng.trace)].ret

LastCall(eng) == eng.trace[Len(eng.trace)]

-----------------------------------------------------------------------------
(* FlexibilityValueCalculator *)

\* Variant whose Dynamic Moderation band starts at exactly 200.
calculate_p415_flexibility_value_from_200(deferred_jobs, grid_conditions) ==
    LET total_energy == SeqSum([i \in 1..Len(deferred_jobs) |->
                                   JobEnergy(deferred_jobs[i])])
        carbon_intensity == DictGet(grid_conditions, "carbon_intensity",
                                    200 * CarbonScale)
        service == IF carbon_intensity >= 200 * CarbonScale
                   THEN [name |-> "Dynamic Moderation", price |-> 1750]
                   ELSE IF carbon_intensity < 100 * CarbonScale
                   THEN [name |-> "Demand Turn Up", price |-> 1200]
                   ELSE [name |-> "Dynamic Containment", price |-> 950]
    IN  [service_type |-> service.name,
         capacity_offered_mw |-> RoundHalfEven(total_energy, (EnergyScale * 1000) \div 100),
         revenue_gbp_per_hour |-> RoundHalfEven(total_energy * service.price,
                                                EnergyScale * 1000),
         clearing_price_gbp_mw_h |-> service.price,
         p415_compliant |-> TRUE,
         grid_carbon_intensity |-> carbon_intensity,
         deferred_jobs_count |-> Len(deferred_jobs)]

\* The result dict of calculate_p415_flexibility_value: capacity in 1/100 MW,
\* revenue and clearing price in pence (response time and settlement period
\* left out).
calculate_p415_flexibility_value(deferred_jobs, grid_conditions) ==
    LET total_energy == SeqSum([i \in 1..Len(deferred_jobs) |->
                                   JobEnergy(deferred_jobs[i])])
        carbon_intensity == DictGet(grid_conditions, "carbon_intensity",
                                    200 * CarbonScale)
        service == IF carbon_intensity > 200 * CarbonScale
                   THEN [name |-> "Dynamic Moderation", price |-> 1750]
                   ELSE IF carbon_intensity < 100 * CarbonScale
                   THEN [name |-> "Demand Turn Up", price |-> 1200]
                   ELSE [name |-> "Dynamic Containment", price |-> 950]
    IN  [service_type |-> service.name,
         capacity_offered_mw |-> RoundHalfEven(total_energy, (EnergyScale * 1000) \div 100),
         revenue_gbp_per_hour |-> RoundHalfEven(total_energy * service.price,
                                                EnergyScale * 1000),
         clearing_price_gbp_mw_h |-> service.price,
         p415_compliant |-> TRUE,
         grid_carbon_intensity |-> carbon_intensity,
         deferred_jobs_count |-> Len(deferred_jobs)]

-----------------------------------------------------------------------------
(* optimize_job_queue *)

RECURSIVE SelectSeq2AllJobs(_, _, _)
\* Variant that selects every job, whatever its decision.
SelectSeq2AllJobs(jobs, decisions, i) ==
    IF i > Len(decisions) THEN <<>>
    ELSE <<jobs[i]>> \o SelectSeq2AllJobs(jobs, decisions, i + 1)

RECURSIVE SelectSeq2(_, _, _)
\* [jobs[i] for i, decision in enumerate(decisions) if decision.action == DEFER]
SelectSeq2(jobs, decisions, i) ==
    IF i > Len(decisions) THEN <<>>
    ELSE IF decisions[i].action = "defer"
         THEN <<jobs[i]>> \o SelectSeq2(jobs, decisions, i + 1)
         ELSE SelectSeq2(jobs, decisions, i + 1)

\* Variant of the loop that collects the decisions newest first.
RECURSIVE DecideAllPrepending(_, _, _, _, _)
DecideAllPrepending(eng, jobs, grid, timings, i) ==
    IF i > Len(jobs)
    THEN [eng |-> eng, decisions |-> <<>>, raised |-> FALSE,
          jobs_after |-> <<>>, grid_after |-> grid]
    ELSE TheOnly({
            IF Raised(LastResult(e1))
            THEN [eng |-> e1, decisions |-> <<>>, raised |-> TRUE,
                  jobs_after |-> <<LastCall(e1).job_after>>,
                  grid_after |-> LastCall(e1).grid_after]
            ELSE TheOnly({
                    [eng |-> rest.eng,
                     decisions |-> rest.decisions \o <<LastResult(e1)>>,
                     raised |-> rest.raised,
                     jobs_after |-> <<LastCall(e1).job_after>> \o rest.jobs_after,
                     grid_after |-> rest.grid_after]
                    : rest \in {DecideAllPrepending(e1, jobs, LastCall(e1).grid_after,
                                 timings, i + 1)}})
            : e1 \in {MakeOptimizationDecisionOn(eng, jobs[i], grid, timings[i])}})

\* The loop "for job in jobs": the engine after jobs[i..], the decisions
\* collected, in the order they were appended, and the dicts the calls were
\* given as they are afterwards.  An exception of a call leaves the loop.
RECURSIVE DecideAll(_, _, _, _, _)
DecideAll(eng, jobs, grid, timings, i) ==
    IF i > Len(jobs)
    THEN [eng |-> eng, decisions |-> <<>>, raised |-> FALSE,
          jobs_after |-> <<>>, grid_after |-> grid]
    ELSE TheOnly({
            IF Raised(LastResult(e1))
            THEN [eng |-> e1, decisions |-> <<>>, raised |-> TRUE,
                  jobs_after |-> <<LastCall(e1).job_after>>,
                  grid_after |-> LastCall(e1).grid_after]
            ELSE TheOnly({
                    [eng |-> rest.eng,
                     decisions |-> <<LastResult(e1)>> \o rest.decisions,
                     raised |-> rest.raised,
                     jobs_after |-> <<LastCall(e1).job_after>> \o rest.jobs_after,
                     grid_after |-> rest.grid_after]
                    : rest \in {DecideAll(e1, jobs, LastCall(e1).grid_after,
                                 timings, i + 1)}})
            : e1 \in {MakeOptimizationDecisionOn(eng, jobs[i], grid, timings[i])}})

\* The engine after the call, the list returned (or the exception that left
\* the loop), the jobs list and the grid dict as they are afterwards, and
\* the invocations of calculate_p415_flexibility_value: the argument list of
\* each, and the value computed (None when there is none).
OptimizeJobQueueOn(eng, jobs, grid, timings) ==
    TheOnly({
        LET deferred_jobs_list == SelectSeq2(jobs, r.decisions, 1)
            jobs_after == r.jobs_after
                          \o SubSeq(jobs, Len(r.jobs_after) + 1, Len(jobs))
        IN  IF r.raised
            THEN [eng |-> r.eng, decisions |-> ValidationError,
                  jobs_after |-> jobs_after, grid_after |-> r.grid_after,
                  p415_calls |-> <<>>, p415_value |-> {}]
            ELSE [eng |-> r.eng,
                  decisions |-> r.decisions,
                  jobs_after |-> jobs_after, grid_after |-> r.grid_after,
                  p415_calls |-> IF deferred_jobs_list # <<>>
                                 THEN <<deferred_jobs_list>> ELSE <<>>,
                  p415_value |-> IF deferred_jobs_list # <<>>
                                 THEN {calculate_p415_flexibility_value(
                                           deferred_jobs_list, r.grid_after)}
                                 ELSE {}]
        : r \in {DecideAll(eng, jobs, grid, timings, 1)}})

-----------------------------------------------------------------------------
(* get_recent_decisions *)

\* s[start:] of Python for any integer start.
PySliceFrom(s, start) ==
    LET from == IF start < 0 THEN Max(Len(s) + start, 0) ELSE Min(start, Len(s))
    IN  SubSeq(s, from + 1, Len(s))

\* The dict get_recent_decisions builds for one decision (decision_id and
\* explanation left out; carbon_reduction_kg keeps the unit of the decision).
RecentView(d) ==
    [timestamp |-> d.timestamp,
     job_id |-> d.job_id,
     action |-> d.action,
     cost_savings |-> d.estimated_cost_savings_gbp,
     carbon_reduction_kg |-> d.estimated_carbon_reduction_gco2]

get_recent_decisions(history, limit) ==
    LET recent == PySliceFrom(history, 0 - limit)
        rev == Reverse(recent)
    IN  [i \in 1..Len(rev) |-> RecentView(rev[i])]

-----------------------------------------------------------------------------
(* MarketConditionClassifier: GridMarketAgent.assess_market_condition *)

\* A GridMarketAgent as far as the classifier can see it: its two
\* thresholds and the data it holds from its last update.
GridMarketAgent(carbon_limit, price_limit, data) ==
    [carbon_threshold |-> carbon_limit, price_threshold |-> price_limit,
     current_data |-> data]

\* Variant whose optimal band includes a ratio of exactly 0.5.
assess_market_condition_inclusive(self, carbon_intensity, energy_price) ==
    LET carbon_ok == carbon_intensity <= self.carbon_threshold
        price_ok == energy_price <= self.price_threshold
    IN  IF carbon_ok /\ price_ok
        THEN IF 2 * carbon_intensity <= self.carbon_threshold
                /\ 2 * energy_price <= self.price_threshold
             THEN "optimal" ELSE "good"
        ELSE IF carbon_ok \/ price_ok THEN "moderate"
        ELSE IF 2 * carbon_intensity > 3 * self.carbon_threshold
                \/ 2 * energy_price > 3 * self.price_threshold
             THEN "critical" ELSE "poor"

\* carbon_ratio < 0.5 is 2 * carbon < threshold and carbon_ratio > 1.5 is
\* 2 * carbon > 3 * threshold, for a positive threshold.
assess_market_condition(self, carbon_intensity, energy_price) ==
    LET carbon_ok == carbon_intensity <= self.carbon_threshold
        price_ok == energy_price <= self.price_threshold
        carbon_ratio_below_half == 2 * carbon_intensity < self.carbon_threshold
        price_ratio_below_half == 2 * energy_price < self.price_threshold
        carbon_ratio_above_3_2 == 2 * carbon_intensity > 3 * self.carbon_threshold
        price_ratio_above_3_2 == 2 * energy_price > 3 * self.price_threshold
    IN  IF carbon_ok /\ price_ok
        THEN IF carbon_ratio_below_half /\ price_ratio_below_half
             THEN "optimal" ELSE "good"
        ELSE IF carbon_ok \/ price_ok THEN "moderate"
        ELSE IF carbon_ratio_above_3_2 \/ price_ratio_above_3_2
             THEN "critical" ELSE "poor"

-----------------------------------------------------------------------------
(* GridMarketAgent: the cached snapshot and its refresh.  Every             *)
(* datetime.now() of one call reads the same clock value, in ms.            *)

GridMarketAgent_DEFAULT_CARBON_THRESHOLD == 200 * CarbonScale
GridMarketAgent_DEFAULT_PRICE_THRESHOLD == (12 * PriceScale) \div 100
update_interval_seconds == 300

\* GridMarketAgent() with its defaults, after its state became
\* (last_update, current_data); both are None after construction.
DefaultGridMarketAgent(last_update, current_data) ==
    [carbon_threshold |-> GridMarketAgent_DEFAULT_CARBON_THRESHOLD,
     price_threshold |-> GridMarketAgent_DEFAULT_PRICE_THRESHOLD,
     update_interval_seconds |-> update_interval_seconds,
     last_update |-> last_update,
     current_data |-> current_data]

\* timedelta.seconds of a difference of delta ms: the whole seconds left
\* once the whole days are taken out (the days are timedelta.days).
TimedeltaSeconds(delta) == (delta \div MsPerSecond) % SecondsPerDay

GridMarketData(carbon, price, forecast, condition) ==
    [carbon_intensity |-> carbon, energy_price |-> price,
     forecast_next_hour |-> forecast, market_condition |-> condition]

\* What the fetches of one update return: the actual intensity (none when
\* the fetch fails), the simulated price and the forecast (none on failure).
Fetched(intensity, price, forecast) ==
    [intensity |-> intensity, energy_price |-> price, forecast |-> forecast]

update_market_data(self, fetched, clock) ==
    LET carbon_intensity == IF fetched.intensity = {}
                            THEN 150 * CarbonScale
                            ELSE TheOnly(fetched.intensity)
        condition == assess_market_condition(self, carbon_intensity,
                                             fetched.energy_price)
    IN  [self EXCEPT
            !.current_data = {GridMarketData(carbon_intensity,
                                             fetched.energy_price,
                                             fetched.forecast, condition)},
            !.last_update = {clock}]

\* self.last_update is None or
\* (datetime.now() - self.last_update).seconds > self.update_interval_seconds
IsStale(self, clock) ==
    \/ self.last_update = {}
    \/ TimedeltaSeconds(clock - TheOnly(self.last_update))
          > self.update_interval_seconds

\* The agent after the call, what the call returns and the number of
\* update_market_data calls it made.
get_current_conditions(self, fetched, clock) ==
    LET stale == IsStale(self, clock)
        after == IF stale THEN update_market_data(self, fetched, clock)
                 ELSE self
    IN  [self |-> after, ret |-> after.current_data,
         fetches |-> IF stale THEN 1 ELSE 0]

should_execute_now(self, fetched, clock) ==
    LET r == get_current_conditions(self, fetched, clock)
    IN  [self |-> r.self, data |-> r.ret, fetches |-> r.fetches,
         ret |-> IF r.ret = {} THEN FALSE
                 ELSE TheOnly(r.ret).market_condition \in {"optimal", "good"}]

\* main.py: the dict the endpoint passes to the orchestrator.
grid_dict(grid_data) ==
    [carbon_intensity |-> grid_data.carbon_intensity,
     energy_price |-> grid_data.energy_price,
     forecast_next_hour |-> grid_data.forecast_next_hour]

-----------------------------------------------------------------------------
(* WorkloadIntelligenceAgent: the demand forecast and the execution window *)

\* The range random.uniform draws the energy of an hour from.
DemandBand(hour_of_day) ==
    IF 9 <= hour_of_day /\ hour_of_day <= 18
    THEN <<800 * EnergyScale, 1200 * EnergyScale>>
    ELSE IF 0 <= hour_of_day /\ hour_of_day <= 6
    THEN <<200 * EnergyScale, 400 * EnergyScale>>
    ELSE <<400 * EnergyScale, 700 * EnergyScale>>

\* One DemandForecast per hour offset of range(hours_ahead); draws[i] is
\* the energy drawn for offset i - 1, current_time the clock in ms.
forecast_demand(hours_ahead, current_time, draws) ==
    [i \in 1..hours_ahead |->
        [timestamp |-> current_time + (i - 1) * MsPerHour,
         forecasted_energy_kwh |-> draws[i]]]

\* min(forecast, key=...): the index of the first slot of least energy.
MinDemandSlot(forecast) ==
    CHOOSE i \in 1..Len(forecast) :
        /\ \A j \in 1..Len(forecast) :
               forecast[i].forecasted_energy_kwh
                   <= forecast[j].forecasted_energy_kwh
        /\ \A j \in 1..(i - 1) :
               forecast[j].forecasted_energy_kwh
                   > forecast[i].forecasted_energy_kwh

ValueError == [raised |-> "ValueError"]

\* The value returned (None is {}), or ValueError when min() is given an
\* empty forecast.
identify_optimal_execution_window(job, current_time, draws) ==
    IF ~job.deferrable THEN [value |-> {}]
    ELSE LET forecast == forecast_demand(job.max_deferral_hours,
                                         current_time, draws)
         IN  IF forecast = <<>> THEN ValueError
             ELSE LET min_demand_slot == forecast[MinDemandSlot(forecast)]
                      current_demand == forecast[1].forecasted_energy_kwh
                      optimal_demand == min_demand_slot.forecasted_energy_kwh
                  IN  IF 10 * optimal_demand < current_demand * 7
                      THEN [value |-> {min_demand_slot.timestamp}]
                      ELSE [value |-> {}]

-----------------------------------------------------------------------------
(* main.py: POST /optimize over the module-level agents *)

\* A WorkloadJob of workload_agent.job_queue, its priority as the enum value.
WorkloadJob(id, workload_type, priority, energy, deferrable, hours) ==
    [job_id |-> id, workload_type |-> workload_type, priority |-> priority,
     energy_required_kwh |-> energy, deferrable |-> deferrable,
     max_deferral_hours |-> hours, status |-> "queued"]

\* OptimizeRequest(job_ids=...): None is {}, a list is {list}.
OptimizeRequest(job_ids) == [job_ids |-> job_ids]

\* The dicts the endpoint builds for the orchestrator.
jobs_dict(jobs_to_optimize) ==
    [i \in 1..Len(jobs_to_optimize) |->
        [job_id |-> jobs_to_optimize[i].job_id,
         energy_required_kwh |-> jobs_to_optimize[i].energy_required_kwh,
         deferrable |-> jobs_to_optimize[i].deferrable,
         max_deferral_hours |-> jobs_to_optimize[i].max_deferral_hours,
         priority |-> jobs_to_optimize[i].priority]]

Range(s) == {s[i] : i \in 1..Len(s)}

\* `if request and request.job_ids:` an absent request, job_ids None and an
\* empty job_ids list are all falsy.
jobs_to_optimize(job_queue, request) ==
    IF /\ request # {}
       /\ TheOnly(request).job_ids # {}
       /\ TheOnly(TheOnly(request).job_ids) # <<>>
    THEN LET InIds(job) ==
                 job.job_id \in Range(TheOnly(TheOnly(request).job_ids))
         IN  SelectSeq(job_queue, InIds)
    ELSE job_queue

CountAction(decisions, action) ==
    Cardinality({i \in 1..Len(decisions) : decisions[i].action = action})

\* The endpoint on the engine eng, the grid agent self and the queue; each
\* decision takes timing.  The response carries the HTTP status; cost_saved
\* is in pence and carbon_reduced_kg in 1/100 kg.
optimize_workload_queue(eng, self, job_queue, request, fetched, timing) ==
    TheOnly({
        LET selected == jobs_to_optimize(job_queue, request)
            timings == [i \in 1..Len(selected) |-> timing]
        IN  IF g.ret = {}
            THEN [eng |-> eng, self |-> g.self, orchestrator_calls |-> <<>>,
                  response |-> [status |-> 503]]
            ELSE IF selected = <<>>
            THEN [eng |-> eng, self |-> g.self, orchestrator_calls |-> <<>>,
                  response |->
                      [status |-> 200, message |-> "No jobs to optimize",
                       decisions |-> <<>>,
                       summary |-> [total_jobs |-> 0,
                                    executed_immediately |-> 0,
                                    deferred |-> 0, cost_saved_gbp |-> 0,
                                    carbon_reduced_kg |-> 0]]]
            ELSE TheOnly({
                IF Raised(LastResult(r.eng))
                THEN [eng |-> r.eng, self |-> g.self,
                      orchestrator_calls |-> <<jobs_dict(selected)>>,
                      response |-> [status |-> 500]]
                ELSE [eng |-> r.eng, self |-> g.self,
                      orchestrator_calls |-> <<jobs_dict(selected)>>,
                      response |->
                          [status |-> 200,
                           message |-> "Optimization complete",
                           decisions |-> r.decisions,
                           summary |->
                               [total_jobs |-> Len(r.decisions),
                                executed_immediately |->
                                    CountAction(r.decisions, "execute_now"),
                                deferred |->
                                    CountAction(r.decisions, "defer"),
                                cost_saved_gbp |-> SeqSum(
                                    [i \in 1..Len(r.decisions) |->
                                     r.decisions[i].estimated_cost_savings_gbp]),
                                carbon_reduced_kg |-> RoundHalfEven(
                                    SeqSum(
                                      [i \in 1..Len(r.decisions) |->
                                       r.decisions[i].estimated_carbon_reduction_gco2]),
                                    1000)]]]
                : r \in {OptimizeJobQueueOn(eng, jobs_dict(selected),
                                           grid_dict(TheOnly(g.ret)),
                                           timings)}})
        : g \in {get_current_conditions(self, fetched, eng.now)}})

-----------------------------------------------------------------------------
(* Inputs of the sequential specification *)

Job(id, energy, deferrable, hours, priority) ==
    [job_id |-> id, energy_required_kwh |-> energy, deferrable |-> deferrable,
     max_deferral_hours |-> hours, priority |-> priority]

Grid(carbon, price, forecast) ==
    [carbon_intensity |-> carbon, energy_price |-> price,
     forecast_next_hour |-> forecast]

Timing(pre, gap, lat) == [pre |-> pre, gap |-> gap, lat |-> lat]

\* The jobs of the queue: two of the module's own test, as main.py passes them.
QueueJobs ==
    {Job("job_test_001", 150 * EnergyScale, TRUE, 6, "medium"),
     Job("job_test_002", 50 * EnergyScale, FALSE, 0, "critical")}

\* High carbon with a better forecast; favourable, on both thresholds; high
\* price with carbon within the threshold.
GridStates ==
    {Grid(245 * CarbonScale, (9 * PriceScale) \div 100, {85 * CarbonScale}),
     Grid(carbon_threshold, price_threshold, {}),
     Grid(100 * CarbonScale, (15 * PriceScale) \div 100, {})}

\* A fast decision, and one slower than the response-time budget.
Timings ==
    {Timing(0, 0, 1),
     Timing(0, 0, sla_response_minutes * MsPerMinute + 1)}

Limits == -1..MaxLimit

Threads == 1..NumThreads

IdleThreads == [t \in Threads |-> "idle"]

NoLocals == [t \in Threads |-> [op |-> "none"]]

-----------------------------------------------------------------------------
(* The sequential specification: one client calling the engine *)

Init ==
    /\ metrics = InitialMetrics
    /\ decision_history = <<>>
    /\ now = 0
    /\ trace = <<>>
    /\ call = [op |-> "none", state |-> "returned"]
    /\ pc = IdleThreads
    /\ local = NoLocals

SetEngine(eng) ==
    /\ metrics' = eng.metrics
    /\ decision_history' = eng.decision_history
    /\ now' = eng.now
    /\ trace' = eng.trace

MakeOptimizationDecision ==
    \E job \in QueueJobs, grid \in GridStates, timing \in Timings :
        /\ Len(trace) < MaxDecisions
        /\ LET eng == MakeOptimizationDecisionOn(
                          Engine(metrics, decision_history, now, trace),
                          job, grid, timing)
           IN  /\ SetEngine(eng)
               /\ call' = [op |-> "make_optimization_decision",
                           state |-> "returned",
                           job |-> job, grid |-> grid, timing |-> timing,
                           job_after |-> LastCall(eng).job_after,
                           grid_after |-> LastCall(eng).grid_after,
                           ret |-> LastResult(eng)]
        /\ UNCHANGED <<pc, local>>

OptimizeJobQueue ==
    \E n \in 0..MaxBatch :
        \E jobs \in [1..n -> QueueJobs], timings \in [1..n -> Timings],
           grid \in GridStates :
            /\ Len(trace) + n <= MaxDecisions
            /\ LET r == OptimizeJobQueueOn(
                            Engine(metrics, decision_history, now, trace),
                            jobs, grid, timings)
               IN  /\ SetEngine(r.eng)
                   /\ call' = [op |-> "optimize_job_queue",
                               state |-> "returned",
                               jobs |-> jobs, grid |-> grid,
                               jobs_after |-> r.jobs_after,
                               grid_after |-> r.grid_after,
                               ret |-> r.decisions,
                               p415_calls |-> r.p415_calls,
                               p415_value |-> r.p415_value]
            /\ UNCHANGED <<pc, local>>

GetRecentDecisions ==
    \E limit \in Limits :
        /\ call' = [op |-> "get_recent_decisions",
                    state |-> "returned",
                    limit |-> limit,
                    ret |-> get_recent_decisions(decision_history, limit)]
        /\ UNCHANGED <<metrics, decision_history, now, trace, pc, local>>

Next ==
    \/ MakeOptimizationDecision
    \/ OptimizeJobQueue
    \/ GetRecentDecisions

Spec == Init /\ [][Next]_vars

-----------------------------------------------------------------------------
(* The single-call specification: one call on a fresh engine or agent, its  *)
(* arguments drawn from a wide domain                                       *)

JobKeys ==
    {"job_id", "energy_required_kwh", "deferrable", "max_deferral_hours", "priority"}

\* Jobs as WorkloadJob allows them: energy 0.1, 1 and 150 kWh.
FullJobs ==
    {Job("job_a", energy, deferrable, hours, priority) :
        energy \in {1, 1 * EnergyScale, 150 * EnergyScale},
        deferrable \in BOOLEAN,
        hours \in {0, 6, 48},
        priority \in {"critical", "high", "medium", "low"}}

\* Job dicts with keys missing.
PartialJobs ==
    {[k \in keys |-> Job("job_b", 150 * EnergyScale, TRUE, 6, "low")[k]] :
        keys \in SUBSET JobKeys}

CallJobs == FullJobs \cup PartialJobs

CallGrids ==
    {Grid(carbon, price, forecast) :
        carbon \in {0, 100 * CarbonScale, carbon_threshold, carbon_threshold + 10,
                    245 * CarbonScale},
        price \in {0, (9 * PriceScale) \div 100, price_threshold,
                   price_threshold + 10, (15 * PriceScale) \div 100},
        forecast \in {{}, {0}, {85 * CarbonScale}, {300 * CarbonScale}}}

CallTimings ==
    {Timing(0, 0, 1),
     Timing(0, 1, 1),
     Timing(1, 1, 3),
     Timing(0, 0, sla_response_minutes * MsPerMinute),
     Timing(0, 0, sla_response_minutes * MsPerMinute + 1)}

SavingsEnergies == {0, 1, 1 * EnergyScale, 150 * EnergyScale, 1000 * EnergyScale}

SavingsPrices ==
    {0, 6300, (9 * PriceScale) \div 100, price_threshold, (15 * PriceScale) \div 100}

SavingsCarbons == {0, 85 * CarbonScale, 12251, 245 * CarbonScale, 300 * CarbonScale}

\* Agents with the default thresholds of GridMarketAgent and with others,
\* before their first update and holding data from an earlier one.
GridMarketAgents ==
    {GridMarketAgent(carbon_limit, price_limit, data) :
        carbon_limit \in {200 * CarbonScale, 100 * CarbonScale},
        price_limit \in {(12 * PriceScale) \div 100, (10 * PriceScale) \div 100},
        data \in {{}, {[carbon_intensity |-> 300 * CarbonScale,
                        market_condition |-> "critical"]}}}

\* Carbon intensities on and next to 0.5, 1 and 1.5 times both thresholds.
AssessCarbons ==
    {0, 50 * CarbonScale - 1, 50 * CarbonScale, 100 * CarbonScale - 1,
     100 * CarbonScale, 100 * CarbonScale + 1, 150 * CarbonScale,
     150 * CarbonScale + 1, 200 * CarbonScale, 200 * CarbonScale + 1,
     300 * CarbonScale, 300 * CarbonScale + 1}

\* Prices on and next to 0.5, 1 and 1.5 times both thresholds.
AssessPrices ==
    {0, (5 * PriceScale) \div 100 - 1, (5 * PriceScale) \div 100,
     (6 * PriceScale) \div 100 - 1, (6 * PriceScale) \div 100,
     (10 * PriceScale) \div 100, (10 * PriceScale) \div 100 + 1,
     (12 * PriceScale) \div 100, (12 * PriceScale) \div 100 + 1,
     (15 * PriceScale) \div 100, (15 * PriceScale) \div 100 + 1,
     (18 * PriceScale) \div 100, (18 * PriceScale) \div 100 + 1}

\* What a refresh can fetch: intensities on and around both agents' carbon
\* thresholds (or no intensity), prices within and above the threshold.
FetchedValues ==
    {Fetched(intensity, price, forecast) :
        intensity \in {{}, {100 * CarbonScale}, {150 * CarbonScale},
                       {180 * CarbonScale}, {200 * CarbonScale},
                       {245 * CarbonScale}},
        price \in {(5 * PriceScale) \div 100, (9 * PriceScale) \div 100,
                   (12 * PriceScale) \div 100, (15 * PriceScale) \div 100},
        forecast \in {{}, {85 * CarbonScale}}}

\* The agent as constructed, and the agent after an update at clock 0.
DefaultGridMarketAgents ==
    {DefaultGridMarketAgent({}, {})}
    \cup {update_market_data(DefaultGridMarketAgent({}, {}), fetched, 0) :
              fetched \in {Fetched({180 * CarbonScale},
                                   (9 * PriceScale) \div 100, {}),
                           Fetched({245 * CarbonScale},
                                   (15 * PriceScale) \div 100,
                                   {85 * CarbonScale})}}

\* Clock readings: at the last update, on and next to the refresh interval
\* after it, and on and next to the interval after whole days.
GridClocks ==
    {0,
     update_interval_seconds * MsPerSecond,
     update_interval_seconds * MsPerSecond + MsPerSecond - 1,
     (update_interval_seconds + 1) * MsPerSecond,
     (SecondsPerDay - 1) * MsPerSecond,
     SecondsPerDay * MsPerSecond,
     (SecondsPerDay + 10) * MsPerSecond,
     (SecondsPerDay + update_interval_seconds + 1) * MsPerSecond,
     2 * SecondsPerDay * MsPerSecond + update_interval_seconds * MsPerSecond}

\* The queue of the endpoint: up to MaxBatch of two jobs, a deferrable
\* training run and a critical inference job.
WorkloadJobs ==
    {WorkloadJob("job_test_001", "training_batch", "medium",
                 150 * EnergyScale, TRUE, 6),
     WorkloadJob("job_test_002", "inference_realtime", "critical",
                 50 * EnergyScale, FALSE, 0)}

JobQueues == UNION {[1..n -> WorkloadJobs] : n \in 0..MaxBatch}

\* No request body, job_ids absent, empty, and lists of queued and of
\* unknown ids.
OptimizeRequests ==
    {{}}
    \cup {{OptimizeRequest({})}}
    \cup {{OptimizeRequest({ids})} :
             ids \in {<<>>, <<"job_test_001">>, <<"job_test_002">>,
                      <<"job_test_002", "job_test_001">>,
                      <<"job_unknown">>, <<"job_test_001", "job_unknown">>}}

EndpointFetches ==
    {Fetched({245 * CarbonScale}, (9 * PriceScale) \div 100,
             {85 * CarbonScale}),
     Fetched({100 * CarbonScale}, (15 * PriceScale) \div 100, {})}

\* Jobs that allow 0 to MaxWindowHours hours of deferral.
WindowJobs ==
    {WorkloadJob("job_w", "training_batch", "medium", 150 * EnergyScale,
                 deferrable, hours) :
        deferrable \in BOOLEAN, hours \in 0..MaxWindowHours}

\* The hour of the day at which the forecast starts: before and in the
\* business hours, at their end, before midnight and in the night.
WindowStartHours == {5, 8, 18, 23}

\* The draws of one forecast: for each hour either end of its band.
WindowDraws(hours_ahead, start_hour) ==
    {draws \in [1..hours_ahead -> {200 * EnergyScale, 400 * EnergyScale,
                                   700 * EnergyScale, 800 * EnergyScale,
                                   1200 * EnergyScale}] :
        \A i \in 1..hours_ahead :
            \E k \in 1..2 :
                draws[i] = DemandBand((start_hour + i - 1) % 24)[k]}

\* Deferred jobs of 0.1, 4, 150 and 1000 kWh, and one without the key.
P415Jobs ==
    {Job("job_a", energy, TRUE, 6, "medium") :
        energy \in {1, 4 * EnergyScale, 150 * EnergyScale, 1000 * EnergyScale}}
    \cup {[job_id |-> "job_b"]}

P415JobLists == UNION {[1..n -> P415Jobs] : n \in 0..MaxBatch}

\* Carbon on and next to both band edges, inside each band, and absent.
P415Grids ==
    {Grid(carbon, (9 * PriceScale) \div 100, {}) :
        carbon \in {100 * CarbonScale - 1, 100 * CarbonScale, 150 * CarbonScale,
                    200 * CarbonScale, 200 * CarbonScale + 1, 220 * CarbonScale}}
    \cup {[energy_price |-> (9 * PriceScale) \div 100]}

PendingCalls ==
    {[op |-> "make_optimization_decision", state |-> "pending",
      job |-> job, grid |-> grid, timing |-> timing] :
        job \in CallJobs, grid \in CallGrids, timing \in CallTimings}
    \cup
    {[op |-> "calculate_cost_savings", state |-> "pending",
      energy_kwh |-> e, current |-> c, optimal |-> o] :
        e \in SavingsEnergies, c \in SavingsPrices, o \in SavingsPrices}
    \cup
    {[op |-> "calculate_carbon_reduction", state |-> "pending",
      energy_kwh |-> e, current |-> c, optimal |-> o] :
        e \in SavingsEnergies, c \in SavingsCarbons, o \in SavingsCarbons}
    \cup
    {[op |-> "assess_market_condition", state |-> "pending",
      self |-> agent, carbon_intensity |-> c, energy_price |-> p] :
        agent \in GridMarketAgents, c \in AssessCarbons, p \in AssessPrices}
    \cup
    {[op |-> op, state |-> "pending",
      self |-> agent, fetched |-> fetched, clock |-> clock] :
        op \in {"get_current_conditions", "should_execute_now"},
        agent \in DefaultGridMarketAgents, fetched \in FetchedValues,
        clock \in GridClocks}
    \cup
    {[op |-> "optimize_workload_queue", state |-> "pending",
      self |-> agent, job_queue |-> queue, request |-> request,
      fetched |-> fetched, timing |-> Timing(0, 0, 1)] :
        agent \in DefaultGridMarketAgents, queue \in JobQueues,
        request \in OptimizeRequests, fetched \in EndpointFetches}
    \cup
    {[op |-> "identify_optimal_execution_window", state |-> "pending",
      job |-> c[1], start_hour |-> c[2], draws |-> c[3]] :
        c \in UNION {{<<job, start_hour, draws>> :
                         draws \in WindowDraws(job.max_deferral_hours,
                                               start_hour)} :
                     job \in WindowJobs, start_hour \in WindowStartHours}}
    \cup
    {[op |-> "calculate_p415_flexibility_value", state |-> "pending",
      deferred_jobs |-> jobs, grid_conditions |-> grid] :
        jobs \in P415JobLists, grid \in P415Grids}

InitCalls ==
    /\ metrics = InitialMetrics
    /\ decision_history = <<>>
    /\ now = 0
    /\ trace = <<>>
    /\ call \in PendingCalls
    /\ pc = IdleThreads
    /\ local = NoLocals

CallMakeOptimizationDecision ==
    /\ call.op = "make_optimization_decision"
    /\ call.state = "pending"
    /\ LET eng == MakeOptimizationDecisionOn(
                      Engine(metrics, decision_history, now, trace),
                      call.job, call.grid, call.timing)
       IN  /\ SetEngine(eng)
           /\ call' = [op |-> call.op, state |-> "returned",
                       job |-> call.job, grid |-> call.grid,
                       timing |-> call.timing,
                       job_after |-> LastCall(eng).job_after,
                       grid_after |-> LastCall(eng).grid_after,
                       ret |-> LastResult(eng)]
    /\ UNCHANGED <<pc, local>>

CallCalculateCostSavings ==
    /\ call.op = "calculate_cost_savings"
    /\ call.state = "pending"
    /\ call' = [op |-> call.op, state |-> "returned",
                energy_kwh |-> call.energy_kwh, current |-> call.current,
                optimal |-> call.optimal,
                ret |-> calculate_cost_savings(call.energy_kwh, call.current,
                                               call.optimal)]
    /\ UNCHANGED <<metrics, decision_history, now, trace, pc, local>>

CallCalculateCarbonReduction ==
    /\ call.op = "calculate_carbon_reduction"
    /\ call.state = "pending"
    /\ call' = [op |-> call.op, state |-> "returned",
                energy_kwh |-> call.energy_kwh, current |-> call.current,
                optimal |-> call.optimal,
                ret |-> calculate_carbon_reduction(call.energy_kwh, call.current,
                                                   call.optimal)]
    /\ UNCHANGED <<metrics, decision_history, now, trace, pc, local>>

\* The classifier reads its arguments and the two thresholds, and writes
\* nothing.
CallAssessMarketCondition ==
    /\ call.op = "assess_market_condition"
    /\ call.state = "pending"
    /\ call' = [op |-> call.op, state |-> "returned",
                self |-> call.self,
                carbon_intensity |-> call.carbon_intensity,
                energy_price |-> call.energy_price,
                ret |-> assess_market_condition(call.self, call.carbon_intensity,
                                                call.energy_price)]
    /\ UNCHANGED <<metrics, decision_history, now, trace, pc, local>>

CallGetCurrentConditions ==
    /\ call.op = "get_current_conditions"
    /\ call.state = "pending"
    /\ LET r == get_current_conditions(call.self, call.fetched, call.clock)
       IN  call' = [op |-> call.op, state |-> "returned",
                    self |-> call.self, fetched |-> call.fetched,
                    clock |-> call.clock,
                    self_after |-> r.self, fetches |-> r.fetches,
                    ret |-> r.ret]
    /\ UNCHANGED <<metrics, decision_history, now, trace, pc, local>>

CallShouldExecuteNow ==
    /\ call.op = "should_execute_now"
    /\ call.state = "pending"
    /\ LET r == should_execute_now(call.self, call.fetched, call.clock)
       IN  call' = [op |-> call.op, state |-> "returned",
                    self |-> call.self, fetched |-> call.fetched,
                    clock |-> call.clock,
                    self_after |-> r.self, fetches |-> r.fetches,
                    data |-> r.data, ret |-> r.ret]
    /\ UNCHANGED <<metrics, decision_history, now, trace, pc, local>>

CallOptimizeWorkloadQueue ==
    /\ call.op = "optimize_workload_queue"
    /\ call.state = "pending"
    /\ LET r == optimize_workload_queue(
                    Engine(metrics, decision_history, now, trace),
                    call.self, call.job_queue, call.request, call.fetched,
                    call.timing)
       IN  /\ SetEngine(r.eng)
           /\ call' = [op |-> call.op, state |-> "returned",
                       self |-> call.self, job_queue |-> call.job_queue,
                       request |-> call.request, fetched |-> call.fetched,
                       timing |-> call.timing,
                       self_after |-> r.self,
                       orchestrator_calls |-> r.orchestrator_calls,
                       ret |-> r.response]
    /\ UNCHANGED <<pc, local>>

CallIdentifyOptimalExecutionWindow ==
    /\ call.op = "identify_optimal_execution_window"
    /\ call.state = "pending"
    /\ call' = [op |-> call.op, state |-> "returned",
                job |-> call.job, start_hour |-> call.start_hour,
                draws |-> call.draws,
                ret |-> identify_optimal_execution_window(
                            call.job, call.start_hour * MsPerHour,
                            call.draws)]
    /\ UNCHANGED <<metrics, decision_history, now, trace, pc, local>>

CallCalculateP415FlexibilityValue ==
    /\ call.op = "calculate_p415_flexibility_value"
    /\ call.state = "pending"
    /\ call' = [op |-> call.op, state |-> "returned",
                deferred_jobs |-> call.deferred_jobs,
                grid_conditions |-> call.grid_conditions,
                ret |-> calculate_p415_flexibility_value(call.deferred_jobs,
                                                        call.grid_conditions)]
    /\ UNCHANGED <<metrics, decision_history, now, trace, pc, local>>

NextCalls ==
    \/ CallCalculateP415FlexibilityValue
    \/ CallMakeOptimizationDecision
    \/ CallCalculateCostSavings
    \/ CallCalculateCarbonReduction
    \/ CallAssessMarketCondition
    \/ CallGetCurrentConditions
    \/ CallShouldExecuteNow
    \/ CallOptimizeWorkloadQueue
    \/ CallIdentifyOptimalExecutionWindow

SpecCalls == InitCalls /\ [][NextCalls]_vars

-----------------------------------------------------------------------------
(* Concurrent callers: NumThreads threads call make_optimization_decision   *)
(* on the one engine.  The method takes no lock, so a thread switch may     *)
(* fall between any two attribute accesses: every read of a metrics field   *)
(* and every write of one is a step of its own.  list.append is one step.   *)

Load(field, reg) == [op |-> "load", field |-> field, reg |-> reg]

Store(field) == [op |-> "store", field |-> field]

\* x.f += v
AddTo(field) == <<Load(field, "acc"), Store(field)>>

\* x.f = (x.f * (x.total_decisions_made - 1) + v) / x.total_decisions_made
FoldInto(field) ==
    <<Load(field, "acc"),
      Load("total_decisions_made", "n1"),
      Load("total_decisions_made", "n2"),
      Store(field)>>

\* The attribute accesses of one call, in program order, after the decision
\* is constructed.
MetricsProgram(decision, decision_time_ms) ==
    (IF decision.action = "defer"
     THEN AddTo("jobs_deferred") \o AddTo("total_cost_saved_gbp")
          \o AddTo("total_carbon_reduced_kgco2")
     ELSE AddTo("jobs_executed_immediately"))
    \o AddTo("total_decisions_made")
    \o FoldInto("avg_decision_time_ms")
    \o (IF IsSlaBreach(decision_time_ms)
        THEN FoldInto("sla_compliance_rate")
        ELSE <<>>)

\* The value a store writes, from the thread's registers.
StoredValue(field, l) ==
    CASE field = "total_cost_saved_gbp" ->
             l.acc + l.decision.estimated_cost_savings_gbp
      [] field = "total_carbon_reduced_kgco2" ->
             l.acc + GramsToKg(l.decision.estimated_carbon_reduction_gco2)
      [] field = "avg_decision_time_ms" ->
             RatFold(l.acc, l.n1 - 1, l.timing.lat, l.n2)
      [] field = "sla_compliance_rate" ->
             RatFold(l.acc, l.n1 - 1, 0, l.n2)
      [] OTHER -> l.acc + 1

\* High carbon with a better forecast, and favourable conditions.
ConcGrids ==
    {Grid(245 * CarbonScale, (9 * PriceScale) \div 100, {85 * CarbonScale}),
     Grid(carbon_threshold, price_threshold, {})}

InitConc ==
    /\ metrics = InitialMetrics
    /\ decision_history = <<>>
    /\ now = 0
    /\ trace = <<>>
    /\ call = [op |-> "none", state |-> "returned"]
    /\ pc = IdleThreads
    /\ local = NoLocals

\* The call is entered: the arguments are read, the cascade is evaluated and
\* the decision constructed (none of it touches shared state).
ThreadBegin(t) ==
    \E job \in QueueJobs, grid \in ConcGrids, timing \in Timings :
        /\ pc[t] = "idle"
        /\ LET decision == MakeDecision(job, grid, now + timing.pre,
                                        now + timing.pre + timing.gap)
           IN  /\ local' = [local EXCEPT ![t] =
                      [op |-> "make_optimization_decision",
                       job |-> job, grid |-> grid, timing |-> timing,
                       start |-> now,
                       decision |-> decision,
                       program |-> IF Raised(decision) THEN <<>>
                                   ELSE MetricsProgram(decision, timing.lat),
                       acc |-> 0, n1 |-> 0, n2 |-> 0]]
               /\ pc' = [pc EXCEPT ![t] = IF Raised(decision) THEN "raised"
                                          ELSE "metrics"]
        /\ UNCHANGED <<metrics, decision_history, now, trace, call>>

\* One attribute read.
ThreadLoad(t) ==
    /\ pc[t] = "metrics"
    /\ local[t].program # <<>>
    /\ Head(local[t].program).op = "load"
    /\ LET step == Head(local[t].program)
           value == metrics[step.field]
       IN  local' = [local EXCEPT ![t] =
               [@ EXCEPT !.program = Tail(@),
                         !.acc = IF step.reg = "acc" THEN value ELSE @,
                         !.n1 = IF step.reg = "n1" THEN value ELSE @,
                         !.n2 = IF step.reg = "n2" THEN value ELSE @]]
    /\ UNCHANGED <<metrics, decision_history, now, trace, call, pc>>

\* One attribute write.
ThreadStore(t) ==
    /\ pc[t] = "metrics"
    /\ local[t].program # <<>>
    /\ Head(local[t].program).op = "store"
    /\ LET step == Head(local[t].program)
       IN  metrics' = [metrics EXCEPT ![step.field] = StoredValue(step.field, local[t])]
    /\ local' = [local EXCEPT ![t] = [@ EXCEPT !.program = Tail(@)]]
    /\ UNCHANGED <<decision_history, now, trace, call, pc>>

\* self.decision_history.append(decision)
ThreadAppend(t) ==
    /\ pc[t] = "metrics"
    /\ local[t].program = <<>>
    /\ decision_history' = Append(decision_history, local[t].decision)
    /\ pc' = [pc EXCEPT ![t] = "append_done"]
    /\ UNCHANGED <<metrics, now, trace, call, local>>

\* return decision
ThreadReturn(t) ==
    /\ pc[t] = "append_done"
    /\ pc' = [pc EXCEPT ![t] = "returned"]
    /\ trace' = Append(trace, [job |-> local[t].job, grid |-> local[t].grid,
                               start |-> local[t].start,
                               latency |-> local[t].timing.lat,
                               job_after |-> JobAfterCall(local[t].job,
                                                          local[t].decision),
                               grid_after |-> GridAfterCall(local[t].grid,
                                                            local[t].decision),
                               ret |-> local[t].decision])
    /\ now' = now + local[t].timing.lat
    /\ UNCHANGED <<metrics, decision_history, call, local>>

NextConc ==
    \E t \in Threads :
        \/ ThreadBegin(t)
        \/ ThreadLoad(t)
        \/ ThreadStore(t)
        \/ ThreadAppend(t)
        \/ ThreadReturn(t)

SpecConc == InitConc /\ [][NextConc]_vars

-----------------------------------------------------------------------------
(* BecknClient.execute_full_journey: each thread runs one journey on its    *)
(* own client.  pc[t] is the step the journey is about to send, local[t]    *)
(* the journey's variables with the log of the requests sent and of what    *)
(* each step method returned (None, {}, is a failed request).               *)

EmptyDict == [k \in {} |-> {}]

\* `if not response:` is false for a dict with at least one key.
DictTruthy(response) == response # {} /\ DOMAIN TheOnly(response) # {}

\* discover_response.get("message", {}).get("catalogs", [])
CatalogsOf(discover_response) ==
    DictGet(DictGet(discover_response, "message", EmptyDict), "catalogs", <<>>)

\* min(items, key=... .get("carbonIntensity", 999)): the first item of
\* least carbon intensity.
BestItem(items) ==
    LET Key(i) == DictGet(items[i], "carbonIntensity", 999)
    IN  items[CHOOSE i \in 1..Len(items) :
                  /\ \A j \in 1..Len(items) : Key(i) <= Key(j)
                  /\ \A j \in 1..(i - 1) : Key(j) > Key(i)]

JourneyLocals ==
    [op |-> "execute_full_journey", sent |-> <<>>, responses |-> <<>>,
     transaction_id |-> {}, item_id |-> {}, provider_id |-> {},
     order_id |-> {}, result |-> {}]

Sending(l, request, response) ==
    [l EXCEPT !.sent = Append(@, request),
              !.responses = Append(@, response)]

\* Step 1 and the extraction of the best window.
after_discover(l, response) ==
    LET l1 == Sending(l, [step |-> "discover"], response)
        abort == [pc |-> "returned", local |-> l1]
    IN  IF ~DictTruthy(response) THEN abort
        ELSE LET catalogs == CatalogsOf(TheOnly(response))
             IN  IF catalogs = <<>> THEN abort
                 ELSE LET items == DictGet(catalogs[1], "beckn:items", <<>>)
                      IN  IF items = <<>> THEN abort
                          ELSE [pc |-> "select",
                                local |->
                                  [l1 EXCEPT
                                     !.item_id =
                                         {BestItem(items)["beckn:id"]},
                                     !.provider_id =
                                         {BestItem(items)["beckn:provider"]},
                                     !.transaction_id =
                                         DictGet(DictGet(TheOnly(response),
                                                         "context", EmptyDict),
                                                 "transaction_id", {})]]

\* Variant of step 2 that goes on to init whatever select returned.
after_select_ignoring_failure(l, response) ==
    [pc |-> "init",
     local |-> Sending(l, [step |-> "select",
                           transaction_id |-> l.transaction_id,
                           item_id |-> l.item_id,
                           provider_id |-> l.provider_id], response)]

\* Step 2.
after_select(l, response) ==
    LET l1 == Sending(l, [step |-> "select",
                          transaction_id |-> l.transaction_id,
                          item_id |-> l.item_id,
                          provider_id |-> l.provider_id], response)
    IN  IF ~DictTruthy(response) THEN [pc |-> "returned", local |-> l1]
        ELSE [pc |-> "init", local |-> l1]

\* Step 3; the order id defaults to a fresh uuid.
after_init(l, response) ==
    LET l1 == Sending(l, [step |-> "init",
                          transaction_id |-> l.transaction_id,
                          item_id |-> l.item_id,
                          provider_id |-> l.provider_id], response)
    IN  IF ~DictTruthy(response) THEN [pc |-> "returned", local |-> l1]
        ELSE [pc |-> "confirm",
              local |->
                [l1 EXCEPT !.order_id =
                    {DictGet(DictGet(DictGet(TheOnly(response), "message",
                                             EmptyDict),
                                     "order", EmptyDict),
                             "id", "uuid4")}]]

\* Step 4 and the return.
after_confirm(l, response) ==
    LET l1 == Sending(l, [step |-> "confirm",
                          transaction_id |-> l.transaction_id,
                          order_id |-> l.order_id], response)
    IN  IF ~DictTruthy(response) THEN [pc |-> "returned", local |-> l1]
        ELSE [pc |-> "returned", local |-> [l1 EXCEPT !.result = response]]

BecknItem(id, carbon) ==
    ("beckn:id" :> id) @@ ("beckn:provider" :> "provider_1")
    @@ ("carbonIntensity" :> carbon)

\* No response, an empty body, a body without a message, no catalogs, a
\* catalog without items, and catalogs of one and of two windows.
DiscoverResponses ==
    {{}, {EmptyDict}, {[context |-> [transaction_id |-> {"txn_1"}]]}}
    \cup {{[context |-> [transaction_id |-> {"txn_1"}],
            message |-> [catalogs |-> catalogs]]} :
             catalogs \in
               {<<>>,
                <<("beckn:items" :> <<>>)>>,
                <<("beckn:items" :> <<BecknItem("window_1", 120)>>)>>,
                <<("beckn:items" :> <<BecknItem("window_1", 120),
                                      BecknItem("window_2", 80)>>)>>}}

SelectResponses ==
    {{}, {EmptyDict}, {[message |-> [order |-> [status |-> "selected"]]]}}

InitResponses ==
    {{}, {EmptyDict}, {[message |-> [order |-> [id |-> "order_1"]]]},
     {[message |-> [order |-> [status |-> "initialized"]]]}}

ConfirmResponses ==
    {{}, {EmptyDict}, {[message |-> [order |-> [status |-> "CONFIRMED"]]]}}

InitJourney ==
    /\ metrics = InitialMetrics
    /\ decision_history = <<>>
    /\ now = 0
    /\ trace = <<>>
    /\ call = [op |-> "none", state |-> "returned"]
    /\ pc = [t \in Threads |-> "discover"]
    /\ local = [t \in Threads |-> JourneyLocals]

JourneyGoes(t, r) ==
    /\ pc' = [pc EXCEPT ![t] = r.pc]
    /\ local' = [local EXCEPT ![t] = r.local]
    /\ UNCHANGED <<metrics, decision_history, now, trace, call>>

JourneyDiscover(t) ==
    /\ pc[t] = "discover"
    /\ \E response \in DiscoverResponses :
           JourneyGoes(t, after_discover(local[t], response))

JourneySelect(t) ==
    /\ pc[t] = "select"
    /\ \E response \in SelectResponses :
           JourneyGoes(t, after_select(local[t], response))

JourneyInit(t) ==
    /\ pc[t] = "init"
    /\ \E response \in InitResponses :
           JourneyGoes(t, after_init(local[t], response))

JourneyConfirm(t) ==
    /\ pc[t] = "confirm"
    /\ \E response \in ConfirmResponses :
           JourneyGoes(t, after_confirm(local[t], response))

NextJourney ==
    \E t \in Threads :
        \/ JourneyDiscover(t)
        \/ JourneySelect(t)
        \/ JourneyInit(t)
        \/ JourneyConfirm(t)

SpecJourney == InitJourney /\ [][NextJourney]_vars

-----------------------------------------------------------------------------
(* Claims about one decision (checked under SpecCalls) *)

Returned(op) == call.op = op /\ call.state = "returned"

\* The job dict says deferrable=false, or says priority=critical.
SaysNotDeferrableOrCritical(job) ==
    \/ ("deferrable" \in DOMAIN job /\ job["deferrable"] = FALSE)
    \/ ("priority" \in DOMAIN job /\ job["priority"] = "critical")

\* The job dict says deferrable=true and a priority other than critical.
SaysDeferrableNotCritical(job) ==
    /\ "deferrable" \in DOMAIN job /\ job["deferrable"] = TRUE
    /\ "priority" \in DOMAIN job => job["priority"] # "critical"

WithinThresholds(grid) ==
    /\ grid.carbon_intensity <= DEFAULT_CARBON_THRESHOLD
    /\ grid.energy_price <= DEFAULT_PRICE_THRESHOLD

\* C1: a job with deferrable=false or priority=critical (a critical job
\* marked deferrable included) is decided execute_now with rationale
\* sla_critical, zero cost savings, zero carbon reduction and no
\* defer_until, for every grid state and forecast.
C1_SlaCriticalExecutesNow ==
    \A i \in 1..Len(trace) :
        SaysNotDeferrableOrCritical(trace[i].job) =>
            /\ trace[i].ret.action = "execute_now"
            /\ trace[i].ret.rationale = "sla_critical"
            /\ trace[i].ret.estimated_cost_savings_gbp = 0
            /\ trace[i].ret.estimated_carbon_reduction_gco2 = 0
            /\ trace[i].ret.defer_until = {}

\* A critical job marked deferrable, decided while carbon and price are both
\* above their thresholds.
C1_Witness ==
    /\ Returned("make_optimization_decision")
    /\ "deferrable" \in DOMAIN call.job /\ call.job["deferrable"] = TRUE
    /\ "priority" \in DOMAIN call.job /\ call.job["priority"] = "critical"
    /\ call.grid.carbon_intensity > DEFAULT_CARBON_THRESHOLD
    /\ call.grid.energy_price > DEFAULT_PRICE_THRESHOLD
    /\ call.ret.action = "execute_now"

\* C2 as stated: whatever the job, a grid state with carbon <= threshold and
\* price <= threshold is decided execute_now with rationale
\* optimal_conditions.
C2_FavorableAlwaysOptimalConditions ==
    \A i \in 1..Len(trace) :
        (DOMAIN trace[i].job = JobKeys /\ WithinThresholds(trace[i].grid)) =>
            /\ trace[i].ret.action = "execute_now"
            /\ trace[i].ret.rationale = "optimal_conditions"

\* C2 amended: with carbon <= threshold and price <= threshold (boundaries
\* included) every job is decided execute_now; the rationale is
\* optimal_conditions when rule 1 does not apply (the job is deferrable and
\* not critical) and sla_critical when it does.
C2_FavorableExecutesNow ==
    \A i \in 1..Len(trace) :
        WithinThresholds(trace[i].grid) =>
            /\ trace[i].ret.action = "execute_now"
            /\ SaysDeferrableNotCritical(trace[i].job) =>
                   trace[i].ret.rationale = "optimal_conditions"
            /\ ~SaysDeferrableNotCritical(trace[i].job) =>
                   trace[i].ret.rationale = "sla_critical"

\* A deferrable, non-critical job decided with carbon and price exactly on
\* their thresholds.
C2_Witness ==
    /\ Returned("make_optimization_decision")
    /\ SaysDeferrableNotCritical(call.job)
    /\ call.grid.carbon_intensity = DEFAULT_CARBON_THRESHOLD
    /\ call.grid.energy_price = DEFAULT_PRICE_THRESHOLD
    /\ call.ret.rationale = "optimal_conditions"

\* C3: for a deferrable, non-critical job, carbon > threshold gives defer
\* with rationale high_carbon whatever the price, and carbon <= threshold
\* with price > threshold gives defer with rationale high_price.
C3_CascadePrecedence ==
    \A i \in 1..Len(trace) :
        SaysDeferrableNotCritical(trace[i].job) =>
            /\ trace[i].grid.carbon_intensity > DEFAULT_CARBON_THRESHOLD =>
                   /\ trace[i].ret.action = "defer"
                   /\ trace[i].ret.rationale = "high_carbon"
            /\ (/\ trace[i].grid.carbon_intensity <= DEFAULT_CARBON_THRESHOLD
                /\ trace[i].grid.energy_price > DEFAULT_PRICE_THRESHOLD) =>
                   /\ trace[i].ret.action = "defer"
                   /\ trace[i].ret.rationale = "high_price"

\* A deferrable, non-critical job decided while carbon and price are both
\* above their thresholds: rule 3 wins over rule 4.
C3_Witness ==
    /\ Returned("make_optimization_decision")
    /\ SaysDeferrableNotCritical(call.job)
    /\ call.grid.carbon_intensity > DEFAULT_CARBON_THRESHOLD
    /\ call.grid.energy_price > DEFAULT_PRICE_THRESHOLD
    /\ call.ret.rationale = "high_carbon"

\* energy x (current - optimal), in the unit of the arguments.
Product(c) == c.energy_kwh * (c.current - c.optimal)

\* The number of argument units in 0.01 of the result's unit.
ResultUnit(c) ==
    IF c.op = "calculate_cost_savings"
    THEN (EnergyScale * PriceScale) \div 100
    ELSE (EnergyScale * CarbonScale) \div 100

-----------------------------------------------------------------------------
(* Claims about sequences of calls (checked under Spec) *)

\* Every decision a call has returned, and every decision stored.
DecisionsSeen ==
    {decision_history[i] : i \in 1..Len(decision_history)}
    \cup {trace[i].ret : i \in 1..Len(trace)}
    \cup (IF Returned("make_optimization_decision") THEN {call.ret} ELSE {})
    \cup (IF Returned("optimize_job_queue")
          THEN {call.ret[i] : i \in 1..Len(call.ret)} ELSE {})

\* C4: for every decision returned or stored in decision_history,
\* defer_until is set if and only if action = defer.
C4_DeferUntilIffDefer ==
    \A d \in DecisionsSeen : (d.defer_until # {}) <=> (d.action = "defer")

\* The history holds a high-carbon deferral, a high-price deferral and an
\* execute_now decision.
C4_Witness ==
    /\ \E i \in 1..Len(decision_history) :
           /\ decision_history[i].rationale = "high_carbon"
           /\ decision_history[i].defer_until # {}
    /\ \E i \in 1..Len(decision_history) :
           /\ decision_history[i].rationale = "high_price"
           /\ decision_history[i].defer_until # {}
    /\ \E i \in 1..Len(decision_history) :
           /\ decision_history[i].action = "execute_now"
           /\ decision_history[i].defer_until = {}

\* The number of calls made so far that returned defer.
DeferredCalls == Cardinality({i \in 1..Len(trace) : trace[i].ret.action = "defer"})

\* C6: after N make_optimization_decision calls (single or via
\* optimize_job_queue) of which K returned defer, total_decisions_made = N,
\* jobs_deferred = K and jobs_executed_immediately = N - K.
C6_MetricsCountDecisions ==
    /\ metrics.total_decisions_made = Len(trace)
    /\ metrics.jobs_deferred = DeferredCalls
    /\ metrics.jobs_executed_immediately = Len(trace) - DeferredCalls

\* Three decisions, the last ones made by optimize_job_queue, some deferred
\* and some not.
C6_Witness ==
    /\ Returned("optimize_job_queue")
    /\ Len(call.jobs) >= 2
    /\ Len(trace) >= 3
    /\ DeferredCalls >= 1
    /\ Len(trace) - DeferredCalls >= 1

\* C7: optimize_job_queue returns one decision per input job, in input
\* order (result[i].job_id = jobs[i].job_id), and the same decisions are
\* appended to decision_history in that order.
C7_QueueOrderPreserved ==
    Returned("optimize_job_queue") =>
        /\ Len(call.ret) = Len(call.jobs)
        /\ \A i \in 1..Len(call.jobs) : call.ret[i].job_id = call.jobs[i].job_id
        /\ Len(decision_history) >= Len(call.jobs)
        /\ SubSeq(decision_history,
                  Len(decision_history) - Len(call.jobs) + 1,
                  Len(decision_history)) = call.ret

\* A batch of two different jobs, optimized on an engine that already holds
\* a decision.
C7_Witness ==
    /\ Returned("optimize_job_queue")
    /\ Len(call.jobs) = 2
    /\ call.jobs[1].job_id # call.jobs[2].job_id
    /\ Len(decision_history) > Len(call.jobs)
    /\ call.ret[1].action # call.ret[2].action

\* C8 as stated: for every limit >= 0 (0 included) get_recent_decisions(limit)
\* returns at most limit decisions, the most recently appended ones, newest
\* first.
C8_RecentBoundedByLimit ==
    (Returned("get_recent_decisions") /\ call.limit >= 0) =>
        /\ Len(call.ret) <= call.limit
        /\ Len(call.ret) = Min(call.limit, Len(decision_history))
        /\ \A i \in 1..Len(call.ret) :
               call.ret[i] = RecentView(decision_history[Len(decision_history) + 1 - i])

\* The number of calls made so far whose latency was within the budget.
CompliantCalls ==
    Cardinality({i \in 1..Len(trace) :
                    trace[i].latency <= DEFAULT_SLA_RESPONSE_MINUTES * MsPerMinute})

\* C9 as stated: after any sequence of decisions sla_compliance_rate is
\* 100 x (compliant decisions) / total_decisions_made.
C9_ComplianceRateIsMean ==
    Len(trace) > 0 =>
        metrics.sla_compliance_rate[1] * Len(trace)
            = 100 * CompliantCalls * metrics.sla_compliance_rate[2]

-----------------------------------------------------------------------------
(* Claims about concurrent callers (checked under SpecConc) *)

\* C10 as stated: once all concurrent calls have returned,
\* total_decisions_made equals the number of calls,
\* jobs_executed_immediately + jobs_deferred equals the number of calls and
\* decision_history holds one entry per call: no increment is lost.
C10_NoLostUpdate ==
    (\A t \in Threads : pc[t] = "returned") =>
        /\ metrics.total_decisions_made = NumThreads
        /\ metrics.jobs_executed_immediately + metrics.jobs_deferred = NumThreads
        /\ Len(decision_history) = NumThreads

-----------------------------------------------------------------------------
(* The arguments of a call after it (checked under Spec) *)

\* C11: make_optimization_decision and optimize_job_queue never change the
\* jobs they are given: every field of every job, and the length and order
\* of the jobs list, are the same after the call as before, and the grid
\* dict passed in is unchanged.
C11_CallsLeaveArgumentsUnchanged ==
    /\ \A i \in 1..Len(trace) :
           /\ trace[i].job_after = trace[i].job
           /\ trace[i].grid_after = trace[i].grid
    /\ Returned("make_optimization_decision") =>
           /\ call.job_after = call.job
           /\ call.grid_after = call.grid
    /\ Returned("optimize_job_queue") =>
           /\ Len(call.jobs_after) = Len(call.jobs)
           /\ \A i \in 1..Len(call.jobs) : call.jobs_after[i] = call.jobs[i]
           /\ call.grid_after = call.grid

\* A batch of two different jobs has been optimized, one of them deferred,
\* after a single decision that deferred its job.
C11_Witness ==
    /\ Returned("optimize_job_queue")
    /\ Len(call.jobs) = 2
    /\ call.jobs[1] # call.jobs[2]
    /\ \E i \in 1..2 : call.ret[i].action = "defer"
    /\ Len(trace) = 3
    /\ trace[1].ret.action = "defer"
    /\ metrics.jobs_deferred >= 2

-----------------------------------------------------------------------------
(* More claims about one call (checked under SpecCalls) *)

\* The condition the decision table of the classifier gives, from the four
\* numbers alone.
ConditionOf(carbon, price, carbon_limit, price_limit) ==
    LET within == {x \in {"carbon", "price"} :
                      IF x = "carbon" THEN carbon <= carbon_limit
                                      ELSE price <= price_limit}
        both_below_half == 2 * carbon < carbon_limit /\ 2 * price < price_limit
        one_above_3_2 == 2 * carbon > 3 * carbon_limit \/ 2 * price > 3 * price_limit
    IN  CASE Cardinality(within) = 2 /\ both_below_half -> "optimal"
          [] Cardinality(within) = 2 /\ ~both_below_half -> "good"
          [] Cardinality(within) = 1 -> "moderate"
          [] Cardinality(within) = 0 /\ one_above_3_2 -> "critical"
          [] Cardinality(within) = 0 /\ ~one_above_3_2 -> "poor"

EnergyOffered(c) ==
    SeqSum([i \in 1..Len(c.deferred_jobs) |->
               IF "energy_required_kwh" \in DOMAIN c.deferred_jobs[i]
               THEN c.deferred_jobs[i].energy_required_kwh ELSE 0])

\* The service and the clearing price (in pence) of the carbon bands.
P415BandsAsClaimed(c) ==
    LET carbon == c.grid_conditions.carbon_intensity
    IN  /\ carbon > 200 * CarbonScale =>
               /\ c.ret.service_type = "Dynamic Moderation"
               /\ c.ret.clearing_price_gbp_mw_h = 1750
        /\ carbon < 100 * CarbonScale =>
               /\ c.ret.service_type = "Demand Turn Up"
               /\ c.ret.clearing_price_gbp_mw_h = 1200
        /\ (carbon >= 100 * CarbonScale /\ carbon <= 200 * CarbonScale) =>
               /\ c.ret.service_type = "Dynamic Containment"
               /\ c.ret.clearing_price_gbp_mw_h = 950

P415CallWithCarbon ==
    /\ Returned("calculate_p415_flexibility_value")
    /\ "carbon_intensity" \in DOMAIN call.grid_conditions

\* C13 as stated: the service follows the carbon bands, capacity_mw is the
\* sum of energy_required_kwh of the deferred jobs divided by 1000, and
\* revenue is capacity_mw x the clearing price.
C13_CapacityAndRevenueExact ==
    P415CallWithCarbon =>
        /\ P415BandsAsClaimed(call)
        /\ call.ret.capacity_offered_mw * ((EnergyScale * 1000) \div 100)
               = EnergyOffered(call)
        /\ call.ret.revenue_gbp_per_hour * (EnergyScale * 1000)
               = EnergyOffered(call) * call.ret.clearing_price_gbp_mw_h

\* C13 amended: the service follows the carbon bands (> 200 Dynamic
\* Moderation at 17.50, < 100 Demand Turn Up at 12.00, otherwise, 100 and 200
\* included, Dynamic Containment at 9.50); the capacity reported is the sum
\* of energy_required_kwh / 1000 rounded to 2 decimals and the revenue
\* reported is (sum / 1000) x clearing price rounded to 2 decimals; 300 kWh
\* at carbon 220 gives 5.25.
C13_CapacityAndRevenueRounded ==
    P415CallWithCarbon =>
        /\ P415BandsAsClaimed(call)
        /\ 2 * Abs(call.ret.capacity_offered_mw * ((EnergyScale * 1000) \div 100)
                   - EnergyOffered(call))
               <= (EnergyScale * 1000) \div 100
        /\ 2 * Abs(call.ret.revenue_gbp_per_hour * (EnergyScale * 1000)
                   - EnergyOffered(call) * call.ret.clearing_price_gbp_mw_h)
               <= EnergyScale * 1000
        /\ (/\ EnergyOffered(call) = 300 * EnergyScale
            /\ call.grid_conditions.carbon_intensity = 220 * CarbonScale) =>
               call.ret.revenue_gbp_per_hour = 525

\* Two deferred jobs of 150 kWh at carbon 220: Dynamic Moderation, 0.3 MW and
\* 5.25 an hour.
C13_Witness ==
    /\ P415CallWithCarbon
    /\ Len(call.deferred_jobs) = 2
    /\ EnergyOffered(call) = 300 * EnergyScale
    /\ call.grid_conditions.carbon_intensity = 220 * CarbonScale
    /\ call.ret.service_type = "Dynamic Moderation"
    /\ call.ret.capacity_offered_mw = 30
    /\ call.ret.revenue_gbp_per_hour = 525

\* C14: make_optimization_decision is total: for every job (any deferrable
\* flag, priority, energy and max_deferral_hours, and job dicts with missing
\* keys) and every grid state with carbon >= 0 and price >= 0, with or
\* without a forecast, it returns a decision and never raises.
C14_DecisionNeverRaises ==
    /\ \A i \in 1..Len(trace) :
           /\ ~Raised(trace[i].ret)
           /\ trace[i].ret.action \in {"execute_now", "defer"}
    /\ Returned("make_optimization_decision") =>
           /\ ~Raised(call.ret)
           /\ decision_history = <<call.ret>>

\* A decision was returned for a job dict with no key at all, and the grid
\* carried no forecast.
C14_Witness ==
    /\ Returned("make_optimization_decision")
    /\ DOMAIN call.job = {}
    /\ call.grid.forecast_next_hour = {}
    /\ call.grid.carbon_intensity > DEFAULT_CARBON_THRESHOLD
    /\ ~Raised(call.ret)
    /\ call.ret.job_id = "unknown"

\* A job's own fields, as the claims read them.
EnergyOf(job) ==
    IF "energy_required_kwh" \in DOMAIN job THEN job.energy_required_kwh ELSE 0

MaxDeferralOf(job) ==
    IF "max_deferral_hours" \in DOMAIN job THEN job.max_deferral_hours ELSE 0

\* C15 as stated: in a high-carbon deferral the optimal-window carbon is the
\* forecast whenever the grid snapshot provides one (0 included) and
\* current_carbon x 0.5 only when none is provided; the optimal-window price
\* is current_price x 0.7; the decision's estimates are the SavingsEstimator
\* results for those values.
C15_ForecastUsedWheneverProvided ==
    \A i \in 1..Len(trace) :
        trace[i].ret.rationale = "high_carbon" =>
            LET job == trace[i].job
                grid == trace[i].grid
                optimal_carbon ==
                    IF grid.forecast_next_hour # {}
                    THEN CHOOSE f \in grid.forecast_next_hour : TRUE
                    ELSE grid.carbon_intensity \div 2
                optimal_price == (grid.energy_price * 7) \div 10
            IN  /\ trace[i].ret.estimated_carbon_reduction_gco2
                       = calculate_carbon_reduction(EnergyOf(job),
                             grid.carbon_intensity, optimal_carbon)
                /\ trace[i].ret.estimated_cost_savings_gbp
                       = calculate_cost_savings(EnergyOf(job),
                             grid.energy_price, optimal_price)

\* The hours a rule defers by.
HoursOf(rationale) == IF rationale = "high_carbon" THEN 6 ELSE 4

\* C16: for every defer decision, defer_until is the decision time plus
\* min(6, max_deferral_hours) hours when the rationale is high_carbon and
\* plus min(4, max_deferral_hours) hours when it is high_price, the decision
\* time being a reading of the clock between the start of the call and the
\* decision's timestamp; hence a job is never deferred by more than its own
\* max_deferral_hours.
C16_DeferUntilWithinMaxDeferral ==
    \A i \in 1..Len(trace) :
        trace[i].ret.action = "defer" =>
            LET hours == Min(HoursOf(trace[i].ret.rationale),
                             MaxDeferralOf(trace[i].job))
            IN  /\ trace[i].ret.rationale \in {"high_carbon", "high_price"}
                /\ \E until \in trace[i].ret.defer_until :
                       /\ until - hours * MsPerHour >= trace[i].start
                       /\ until - hours * MsPerHour <= trace[i].ret.timestamp
                       /\ until - trace[i].ret.timestamp
                              <= MaxDeferralOf(trace[i].job) * MsPerHour

\* A high-price deferral of a job that allows 48 hours, the clock having
\* moved before the rule read it: deferred by 4 hours from that reading.
C16_Witness ==
    /\ Returned("make_optimization_decision")
    /\ call.ret.rationale = "high_price"
    /\ MaxDeferralOf(call.job) = 48
    /\ call.timing.pre = 1
    /\ call.ret.defer_until = {1 + 4 * MsPerHour}
    /\ call.ret.timestamp = 2

\* C17: in a high-price deferral the optimal-window carbon is
\* current_carbon x 0.8 and the optimal-window price is the configured
\* price_threshold x 0.7 (not a fraction of the current price); the
\* decision's estimates are the SavingsEstimator results for those values.
C17_HighPriceOptimalWindow ==
    \A i \in 1..Len(trace) :
        trace[i].ret.rationale = "high_price" =>
            LET job == trace[i].job
                grid == trace[i].grid
            IN  /\ grid.carbon_intensity <= DEFAULT_CARBON_THRESHOLD
                /\ grid.energy_price > DEFAULT_PRICE_THRESHOLD
                /\ SaysDeferrableNotCritical(job)
                /\ trace[i].ret.estimated_carbon_reduction_gco2
                       = calculate_carbon_reduction(EnergyOf(job),
                             grid.carbon_intensity,
                             (grid.carbon_intensity * 8) \div 10)
                /\ trace[i].ret.estimated_cost_savings_gbp
                       = calculate_cost_savings(EnergyOf(job),
                             grid.energy_price,
                             (DEFAULT_PRICE_THRESHOLD * 7) \div 10)

\* A 150 kWh job deferred at price 0.15 and carbon 100: savings of
\* 150 x (0.15 - 0.084) = 9.90 and a reduction of 150 x 20 = 3000 g.
C17_Witness ==
    /\ Returned("make_optimization_decision")
    /\ call.ret.rationale = "high_price"
    /\ EnergyOf(call.job) = 150 * EnergyScale
    /\ call.grid.energy_price = (15 * PriceScale) \div 100
    /\ call.grid.carbon_intensity = 100 * CarbonScale
    /\ call.ret.estimated_cost_savings_gbp = 990
    /\ call.ret.estimated_carbon_reduction_gco2 = 3000 * 100

-----------------------------------------------------------------------------
(* More claims about sequences of calls (checked under Spec) *)

\* The sum of the latencies of the calls made so far, in ms.
SumLatencies == SeqSum([i \in 1..Len(trace) |-> trace[i].latency])

\* C18: after any sequence of decisions avg_decision_time_ms is the
\* arithmetic mean of the latencies of all decisions made so far: avg x n
\* equals the sum of the recorded latencies, n being total_decisions_made.
C18_AverageLatencyIsMean ==
    /\ metrics.avg_decision_time_ms[2] > 0
    /\ metrics.avg_decision_time_ms[1] * metrics.total_decisions_made
           = SumLatencies * metrics.avg_decision_time_ms[2]
    /\ metrics.total_decisions_made = Len(trace)

\* Three decisions, two fast and one over the budget, the slow one first:
\* the mean is (300001 + 1 + 1) / 3 = 100001 ms.
C18_Witness ==
    /\ Len(trace) = 3
    /\ trace[1].latency > trace[2].latency
    /\ trace[2].latency = trace[3].latency
    /\ metrics.avg_decision_time_ms = <<100001, 1>>

\* The indices of the batch whose decision is defer.
DeferredIndices(decisions) ==
    {i \in 1..Len(decisions) : decisions[i].action = "defer"}

\* list holds jobs[i] for exactly the indices of idx, in increasing order.
IsSelection(list, jobs, idx) ==
    /\ Len(list) = Cardinality(idx)
    /\ \E f \in [1..Len(list) -> idx] :
           /\ \A a, b \in 1..Len(list) : a < b => f[a] < f[b]
           /\ \A a \in 1..Len(list) : list[a] = jobs[f[a]]

\* C19: optimize_job_queue invokes the flexibility value calculation at
\* most once per call, exactly when at least one decision of the batch is
\* defer, and passes it exactly the input jobs whose decision at the same
\* index is defer, in input order (and the grid it was given); when no job
\* is deferred the calculation is not invoked.
C19_FlexibilityValueForDeferredJobs ==
    Returned("optimize_job_queue") =>
        /\ Len(call.p415_calls) <= 1
        /\ (Len(call.p415_calls) = 1) <=> (DeferredIndices(call.ret) # {})
        /\ (call.p415_value # {}) <=> (DeferredIndices(call.ret) # {})
        /\ \A k \in 1..Len(call.p415_calls) :
               IsSelection(call.p415_calls[k], call.jobs, DeferredIndices(call.ret))
        /\ \A v \in call.p415_value :
               /\ v.deferred_jobs_count = Cardinality(DeferredIndices(call.ret))
               /\ v.grid_carbon_intensity = call.grid.carbon_intensity

\* A batch whose second job is deferred and whose first is not: the
\* calculation received the second job alone.
C19_Witness ==
    /\ Returned("optimize_job_queue")
    /\ Len(call.jobs) = 2
    /\ call.ret[1].action = "execute_now"
    /\ call.ret[2].action = "defer"
    /\ call.p415_calls = << <<call.jobs[2]>> >>

\* The number added to a counter by one decision.
Counts(cond) == IF cond THEN 1 ELSE 0

\* C20: a decision whose latency exceeds the response-time budget does not
\* fail the call: the decision is returned, appended to decision_history
\* and counted in total_decisions_made and the execute/defer tallies (and
\* the savings totals) as a compliant decision is; besides, the breach
\* lowers sla_compliance_rate to rate x (n - 1) / n.
C20_BreachDoesNotFailCall ==
    [][(/\ call'.op = "make_optimization_decision"
        /\ Len(trace') = Len(trace) + 1
        /\ call'.timing.lat > DEFAULT_SLA_RESPONSE_MINUTES * MsPerMinute) =>
           /\ ~Raised(call'.ret)
           /\ call'.ret.action \in {"execute_now", "defer"}
           /\ decision_history' = Append(decision_history, call'.ret)
           /\ metrics'.total_decisions_made = metrics.total_decisions_made + 1
           /\ metrics'.jobs_deferred
                  = metrics.jobs_deferred + Counts(call'.ret.action = "defer")
           /\ metrics'.jobs_executed_immediately
                  = metrics.jobs_executed_immediately
                    + Counts(call'.ret.action = "execute_now")
           /\ metrics'.total_cost_saved_gbp
                  = metrics.total_cost_saved_gbp
                    + call'.ret.estimated_cost_savings_gbp
           /\ metrics'.total_carbon_reduced_kgco2
                  = metrics.total_carbon_reduced_kgco2
                    + call'.ret.estimated_carbon_reduction_gco2
           /\ metrics'.jobs_shifted = metrics.jobs_shifted
           /\ metrics'.sla_compliance_rate[1] * metrics.sla_compliance_rate[2]
                  * metrics'.total_decisions_made
                  = metrics.sla_compliance_rate[1] * metrics.total_decisions_made
                    * metrics'.sla_compliance_rate[2]
    ]_vars

\* A deferral that took longer than the budget was returned and stored
\* after an earlier compliant decision, and the rate fell to 50.
C20_Witness ==
    /\ Returned("make_optimization_decision")
    /\ call.timing.lat > DEFAULT_SLA_RESPONSE_MINUTES * MsPerMinute
    /\ call.ret.action = "defer"
    /\ Len(decision_history) = 2
    /\ decision_history[2] = call.ret
    /\ metrics.total_decisions_made = 2
    /\ metrics.jobs_deferred >= 1
    /\ metrics.sla_compliance_rate = <<50, 1>>

\* The sums of the two estimates over a list of decisions.
SumCostSavings(h) ==
    SeqSum([i \in 1..Len(h) |-> h[i].estimated_cost_savings_gbp])

SumCarbonReduction(h) ==
    SeqSum([i \in 1..Len(h) |-> h[i].estimated_carbon_reduction_gco2])

\* C21: after any sequence of decisions total_cost_saved_gbp is the sum of
\* estimated_cost_savings_gbp over decision_history and
\* total_carbon_reduced_kgco2 is the sum of estimated_carbon_reduction_gco2
\* divided by 1000; execute_now decisions leave both figures unchanged and
\* neither figure ever decreases.
C21_TotalsAreSumsOverHistory ==
    /\ [](/\ metrics.total_cost_saved_gbp = SumCostSavings(decision_history)
          /\ metrics.total_carbon_reduced_kgco2 * KgUnitInGramUnits
                 = SumCarbonReduction(decision_history))
    /\ [][/\ metrics'.total_cost_saved_gbp >= metrics.total_cost_saved_gbp
          /\ metrics'.total_carbon_reduced_kgco2 >= metrics.total_carbon_reduced_kgco2
          /\ (/\ call'.op = "make_optimization_decision"
              /\ Len(trace') = Len(trace) + 1
              /\ call'.ret.action = "execute_now") =>
                 /\ metrics'.total_cost_saved_gbp = metrics.total_cost_saved_gbp
                 /\ metrics'.total_carbon_reduced_kgco2
                        = metrics.total_carbon_reduced_kgco2
       ]_vars

\* A high-carbon deferral of the 150 kWh job (4.05 saved, 24 kg reduced),
\* then an execute_now decision, then a high-price deferral.
C21_Witness ==
    /\ Len(decision_history) = 3
    /\ decision_history[1].rationale = "high_carbon"
    /\ decision_history[2].action = "execute_now"
    /\ decision_history[3].rationale = "high_price"
    /\ metrics.total_cost_saved_gbp = 405 + 990
    /\ metrics.total_carbon_reduced_kgco2 = (24 + 3) * KgScale

\* C27: in every state reached by sequential single and batched calls,
\* len(decision_history) = total_decisions_made = jobs_executed_immediately
\* + jobs_deferred, jobs_shifted = 0, no stored decision has action
\* shift_region or cancel, and decision_history only grows: the earlier
\* entries stay where and what they were.
C27_HistoryAndCountersAgree ==
    /\ [](/\ Len(decision_history) = metrics.total_decisions_made
          /\ metrics.total_decisions_made
                 = metrics.jobs_executed_immediately + metrics.jobs_deferred
          /\ metrics.jobs_shifted = 0
          /\ \A i \in 1..Len(decision_history) :
                 decision_history[i].action \notin {"shift_region", "cancel"})
    /\ [][/\ Len(decision_history') >= Len(decision_history)
          /\ SubSeq(decision_history', 1, Len(decision_history))
                 = decision_history
       ]_vars

\* A batch of two after a single decision, with both actions stored.
C27_Witness ==
    /\ Returned("optimize_job_queue")
    /\ Len(call.ret) = 2
    /\ Len(decision_history) = 3
    /\ metrics.jobs_deferred = 2
    /\ metrics.jobs_executed_immediately = 1

C29_DeferUntilStrictlyLater ==
    \A i \in 1..Len(trace) :
        (~Raised(trace[i].ret) /\ trace[i].ret.action = "defer") =>
            \E until \in trace[i].ret.defer_until :
                until > trace[i].ret.timestamp

\* C23 as stated: get_current_conditions calls update_market_data exactly
\* when no update has happened yet or more than update_interval_seconds
\* seconds have elapsed since last_update, however long that is (more than
\* a day included); otherwise it returns the cached snapshot unfetched.
C23_RefreshWheneverStale ==
    Returned("get_current_conditions") =>
        LET never == call.self.last_update = {}
            elapsed == call.clock - TheOnly(call.self.last_update)
            due == never \/ elapsed > update_interval_seconds * MsPerSecond
        IN  /\ due => call.fetches = 1 /\ call.self_after.last_update = {call.clock}
            /\ ~due => /\ call.fetches = 0
                       /\ call.ret = call.self.current_data
                       /\ call.self_after = call.self

\* C30 as stated: with both agents on their defaults, whenever
\* should_execute_now answers true for a snapshot, the orchestrator defers
\* no job for that same snapshot.
C30_AgentsAgreeOnExecution ==
    (Returned("should_execute_now") /\ call.ret = TRUE) =>
        \A snapshot \in call.data : \A job \in CallJobs :
            LET d == MakeDecision(job, grid_dict(snapshot), 0, 0)
            IN  Raised(d) \/ d.action # "defer"

\* The ids of the jobs of a list, in order.
IdsOf(s) == [i \in 1..Len(s) |-> s[i].job_id]

\* C25 as stated: POST /optimize with job_ids given decides exactly the
\* queued jobs whose id is in job_ids, and the entire queue only when
\* job_ids is None (or there is no request body); when the selection is
\* empty it answers 'No jobs to optimize' without calling the orchestrator,
\* metrics and decision_history staying as they were.
C25_SelectionByJobIds ==
    Returned("optimize_workload_queue") =>
        LET given == call.request # {} /\ TheOnly(call.request).job_ids # {}
            ids == IF given
                   THEN Range(TheOnly(TheOnly(call.request).job_ids))
                   ELSE {}
            Wanted(job) == given => job.job_id \in ids
            wanted == SelectSeq(call.job_queue, Wanted)
        IN  /\ call.ret.status = 200
            /\ IdsOf(call.ret.decisions) = IdsOf(wanted)
            /\ IdsOf(decision_history) = IdsOf(wanted)
            /\ wanted = <<>> =>
                   /\ call.ret.message = "No jobs to optimize"
                   /\ call.orchestrator_calls = <<>>
                   /\ metrics = InitialMetrics
                   /\ decision_history = <<>>

\* C24 as stated: for every valid WorkloadJob, deferrable or not, with
\* max_deferral_hours anywhere from 0, identify_optimal_execution_window
\* returns without raising: None when the job is not deferrable, otherwise
\* None or the timestamp t of a forecast slot with
\* now <= t < now + max_deferral_hours whose forecast demand is below 70%
\* of the current-hour demand.
C24_WindowReturnedWithoutRaising ==
    Returned("identify_optimal_execution_window") =>
        /\ ~Raised(call.ret)
        /\ ~call.job.deferrable => call.ret.value = {}
        /\ \A t \in call.ret.value :
               \E i \in 1..call.job.max_deferral_hours :
                   /\ t = call.start_hour * MsPerHour + (i - 1) * MsPerHour
                   /\ 10 * call.draws[i] < 7 * call.draws[1]

-----------------------------------------------------------------------------
(* The same question put to engines of different pasts: successive          *)
(* decisions on one engine, each over jobs and grid states that differ in   *)
(* every input of make_optimization_decision.                               *)

\* Small and large jobs, with and without a deferral window.
TwinJobs ==
    {Job("job_t", energy_and_hours[1], deferrable, energy_and_hours[2],
         priority) :
        energy_and_hours \in {<<1 * EnergyScale, 0>>, <<150 * EnergyScale, 6>>},
        deferrable \in BOOLEAN,
        priority \in {"critical", "medium"}}

TwinGrids ==
    {Grid(carbon, price, forecast) :
        carbon \in {100 * CarbonScale, 245 * CarbonScale},
        price \in {(9 * PriceScale) \div 100, (15 * PriceScale) \div 100},
        forecast \in {{}, {85 * CarbonScale}}}

DecideOnEngineWithPast ==
    \E job \in TwinJobs, grid \in TwinGrids :
        /\ Len(trace) < MaxTwinDecisions
        /\ LET eng == MakeOptimizationDecisionOn(
                          Engine(metrics, decision_history, now, trace),
                          job, grid, Timing(0, 0, 1))
           IN  /\ SetEngine(eng)
               /\ call' = [op |-> "make_optimization_decision",
                           state |-> "returned",
                           job |-> job, grid |-> grid,
                           timing |-> Timing(0, 0, 1),
                           job_after |-> LastCall(eng).job_after,
                           grid_after |-> LastCall(eng).grid_after,
                           ret |-> LastResult(eng)]
        /\ UNCHANGED <<pc, local>>

NextTwin == DecideOnEngineWithPast

SpecTwin == Init /\ [][NextTwin]_vars

\* What the claim says a decision depends on, the thresholds being the same
\* for every engine.
DecisionKey(e) ==
    <<e.job.deferrable, e.job.priority,
      e.grid.carbon_intensity, e.grid.energy_price>>

\* C28: the decision is history-independent: engines with the same
\* thresholds but different metrics and decision histories return the same
\* action and rationale for the same job and grid state, and action and
\* rationale depend only on (deferrable, priority, carbon, price) and the
\* thresholds, never on the job's energy, its max_deferral_hours or the
\* forecast.
C28_DecisionDependsOnKeyOnly ==
    \A i, j \in 1..Len(trace) :
        DecisionKey(trace[i]) = DecisionKey(trace[j]) =>
            /\ trace[i].ret.action = trace[j].ret.action
            /\ trace[i].ret.rationale = trace[j].ret.rationale

\* A small job without a deferral window decided on a fresh
\* engine with no forecast, then a large job with a window decided on the
\* engine that holds that decision, with a forecast: both deferred for
\* high carbon.
C28_Witness ==
    /\ Len(trace) = 2
    /\ DecisionKey(trace[1]) = DecisionKey(trace[2])
    /\ trace[1].job.energy_required_kwh # trace[2].job.energy_required_kwh
    /\ trace[1].job.max_deferral_hours # trace[2].job.max_deferral_hours
    /\ trace[1].grid.forecast_next_hour = {}
    /\ trace[2].grid.forecast_next_hour # {}
    /\ trace[1].ret.rationale = "high_carbon"
    /\ trace[2].ret.rationale = "high_carbon"
    /\ metrics.jobs_deferred = 2

-----------------------------------------------------------------------------
(* Claims about the Beckn journey (checked under SpecJourney) *)

JourneyOrder == <<"discover", "select", "init", "confirm">>

\* The discover response holds a first catalog with at least one item.
OffersAWindow(response) ==
    /\ response # {}
    /\ "message" \in DOMAIN TheOnly(response)
    /\ "catalogs" \in DOMAIN TheOnly(response).message
    /\ Len(TheOnly(response).message.catalogs) >= 1
    /\ Len(TheOnly(response).message.catalogs[1]["beckn:items"]) >= 1

\* C22: execute_full_journey sends discover, select, init, confirm in that
\* order; a step is sent only if every earlier step returned a response
\* (and discover offered at least one catalog with at least one item); once
\* a step fails no later step is sent and the result is None; a result
\* other than None is the confirm response and all four steps succeeded.
C22_JourneyStepsInOrder ==
    \A t \in Threads :
        LET l == local[t]
            n == Len(l.sent)
        IN  /\ n <= Len(JourneyOrder)
            /\ Len(l.responses) = n
            /\ \A i \in 1..n : l.sent[i].step = JourneyOrder[i]
            /\ \A i \in 2..n :
                   /\ \A j \in 1..(i - 1) : l.responses[j] # {}
                   /\ OffersAWindow(l.responses[1])
            /\ \A i \in 1..n :
                   l.responses[i] = {} =>
                       (n = i /\ pc[t] = "returned" /\ l.result = {})
            /\ l.result # {} =>
                   /\ pc[t] = "returned"
                   /\ n = Len(JourneyOrder)
                   /\ l.result = l.responses[n]
                   /\ \A i \in 1..n : l.responses[i] # {}

\* One journey confirmed for the window of least carbon, the other stopped
\* by a failed init.
C22_Witness ==
    \E t, u \in Threads :
        /\ local[t].result # {}
        /\ local[t].item_id = {"window_2"}
        /\ Len(local[t].sent) = 4
        /\ pc[u] = "returned"
        /\ Len(local[u].sent) = 3
        /\ local[u].responses[3] = {}
        /\ local[u].result = {}

====
